---------------------------- MODULE Spec2Model ----------------------------
(***************************************************************************)
(* Model of the agent orchestration core of the personal notes assistant: *)
(* AgentService.chat_stream (the bounded turn loop, the tool-call batch,  *)
(* the streamed finalization with its non-streamed fallback, the          *)
(* budget-exceeded finalization) and AgentService._tool_search_notes      *)
(* (argument narrowing and clamping).                                     *)
(*                                                                         *)
(* The model endpoint, the note services and the search collaborator are  *)
(* the environment: each request returns or raises, each stream yields a  *)
(* finite mix of events, each tool dispatch returns or raises.            *)
(***************************************************************************)
EXTENDS Integers, Sequences, FiniteSets, TLC

(***************************************************************************)
(* Bounds of the model (not program constants).                           *)
(***************************************************************************)
\* most tool calls the model endpoint returns in one response
MaxBatch == 2
\* most tool calls the model endpoint returns over one invocation
MaxCalls == 3
\* most events the streaming channels of one invocation yield in total
MaxStreamEvents == 2
\* largest magnitude of a requested search limit beyond the declared range
LimitSpan == 505
AlphaSpan == 3
FreeSlots == 1
MaxOps == 2

(***************************************************************************)
(* Program constants.                                                     *)
(***************************************************************************)
\* for turn in range(3)
MaxTurns == 3
\* limit_val = max(1, min(int(limit or 20), 200))
DefaultLimit == 20
MinLimit == 1
MaxLimit == 200
\* alpha is counted in tenths: the declared range [0, 1] and the default 0.5
AlphaMin == 0
AlphaMax == 10
DefaultAlpha == 5

\* Python None for a response id / continuation token
NoneId == 0
\* a continuation token supplied by the caller (distinct from every response id)
CallerToken == 99
\* Python None for an absent integer argument
NoneArg == -1000
MalformedId == -1

ErrTurn == "I'm unable to complete that request right now. Please try again."
ErrFallback == "We couldn't complete the request. Please try again."
ErrStreaming == "Streaming failed."
FailSafe == "I'm unable to complete that request right now. Please try again."

\* None where a string is expected
NoneStr == "<none>"

ToolNames == {"search_notes", "create_note", "update_note", "delete_note"}

VARIABLES
    pc,                     \* position of the chat_stream generator
    turn,                   \* loop variable of "for turn in range(3)"
    events,                 \* the events yielded so far, in order
    next_inputs,            \* input items of the next model request
    previous_response_id,   \* continuation token
    collected_source_ids,   \* the Source Id Set
    pending_tool_calls,     \* function_call items of the last response
    call_idx,               \* index of the tool call being processed
    call_args,              \* parsed arguments of the tool call being processed
    stream_kwargs,          \* request of the streamed finalization (reused by the fallback)
    stream_n,               \* history: events yielded by the streaming channels
    n_turn_req,             \* history: non-streamed turn requests issued
    n_stream_req,           \* history: streamed requests issued
    n_fallback_req,         \* history: non-streamed fallback requests issued
    n_calls,                \* history: tool calls received from the model
    n_dispatch,             \* history: tool dispatches performed
    n_domain_ops,           \* history: dispatches that reached a tool operation
    returned_ids,           \* history: note ids returned by search_notes calls
    stream_failed,          \* history: where a streaming channel raised ("none", "loop", "budget")
    stream_deltas,          \* history: final_delta events of the stream that raised
    stream_text,            \* history: texts of the delta events the last stream delivered
    fallback_resp,          \* history: outcome of the fallback request
    returned_at,            \* history: the return statement that ended the generator
    last_req_token,         \* history: continuation token carried by the last model request
    sent_log,               \* history: the items of every model request's input, by key
    last_resp_id,           \* history: id of the last model response received
    closed_at,              \* history: where the consumer closed the generator ("none" if it did not)
    req_limit,              \* search_notes: the requested limit
    eff_limit,              \* search_notes: the limit passed to the search collaborator
    req_alpha,              \* search_notes: the requested alpha, in tenths
    eff_alpha,              \* search_notes: the alpha passed to the search collaborator
    search_pc,              \* search_notes: position
    req_query,              \* search_notes: the requested query
    embed_out,              \* search_notes: what the embedding collaborator did
    eff_query,              \* search_notes: the query passed to the search collaborator
    eff_embedding,          \* search_notes: the query embedding passed to the search collaborator
    search_out,             \* search_notes: what the tool operation returned
    notes,                  \* note store: the row of every note id
    next_id,                \* note store: the id the next created note gets
    tasks,                  \* background tasks spawned by the tool operations and not yet ended
    task_ends,              \* history: how background tasks have ended ("done", "failed")
    op_pc,                  \* note tools: "idle", or how the last operation ended
    op_result,              \* note tools: result of the last operation
    op_log,                 \* history: the note tool operations run so far
    disp_name,              \* dispatcher: the tool name of the two compared calls
    raw_a,                  \* dispatcher: raw argument map of the first call
    raw_b,                  \* dispatcher: raw argument map of the second call
    call_a,                 \* dispatcher: collaborator call made for the first call
    call_b,                 \* dispatcher: collaborator call made for the second call
    result_a,               \* dispatcher: result returned for the first call
    result_b,               \* dispatcher: result returned for the second call
    disp_pc,                \* dispatcher: position
    upd_row,                \* update_note: the caller's stored note before the call
    upd_args,               \* update_note: title, content and is_archived of the call
    upd_out,                \* update_note: how the call ended, and the stored note after it
    upd_pc,                 \* update_note: position
    enr_tags,               \* tag writers: the stored tags of the note
    enr_jobs,               \* tag writers: the enrichment jobs spawned for the note
    enr_last,               \* history: the last write of the note's tags
    enr_updates,            \* history: number of user updates of the note
    crt_args,               \* create_note: title, content and note_type of the call, and what the store does
    crt_out,                \* create_note: how the call ended, and the note stored
    crt_pc,                 \* create_note: position
    rl_enabled,             \* rate limiter: settings.enable_rate_limiting
    rl_now,                 \* rate limiter: the reading of time.time()
    rl_attempts,            \* rate limiter: _login_attempts, the recorded times of every identifier
    rl_log                  \* history: every call of rate_limit_by_ip and how it ended

chatVars == <<pc, turn, events, next_inputs, previous_response_id,
              collected_source_ids, pending_tool_calls, call_idx, call_args,
              stream_kwargs, stream_n, n_turn_req, n_stream_req,
              n_fallback_req, n_calls, n_dispatch, n_domain_ops, returned_ids,
              stream_failed, stream_deltas, stream_text, fallback_resp, returned_at,
              last_req_token, sent_log, last_resp_id, closed_at>>
searchVars == <<req_limit, eff_limit, req_alpha, eff_alpha, search_pc, req_query,
                embed_out, eff_query, eff_embedding, search_out>>
noteVars == <<notes, next_id, tasks, task_ends, op_pc, op_result, op_log>>
argVars == <<disp_name, raw_a, raw_b, call_a, call_b, result_a, result_b, disp_pc>>
updVars == <<upd_row, upd_args, upd_out, upd_pc>>
enrVars == <<enr_tags, enr_jobs, enr_last, enr_updates>>
crtVars == <<crt_args, crt_out, crt_pc>>
rlVars == <<rl_enabled, rl_now, rl_attempts, rl_log>>
extVars == <<enrVars, crtVars, rlVars>>
vars == <<chatVars, searchVars, noteVars, argVars, updVars, extVars>>

(***************************************************************************)
(* Helpers.                                                               *)
(***************************************************************************)
Max(a, b) == IF a >= b THEN a ELSE b
Min(a, b) == IF a <= b THEN a ELSE b

SetMin(S) == CHOOSE m \in S : \A x \in S : m <= x

RECURSIVE Sorted(_)
\* sorted(collected_source_ids): the ascending list of the elements of a set
Sorted(S) == IF S = {} THEN <<>>
             ELSE <<SetMin(S)>> \o Sorted(S \ {SetMin(S)})

SeqToSet(s) == {s[i] : i \in 1..Len(s)}

\* the user message item that seeds the conversation
UserItem == [type |-> "message", role |-> "user"]

\* "rid or previous_response_id"
OrElse(rid, prev) == IF rid # NoneId THEN rid ELSE prev

\* the continuation token is left out of every request
BuildResponseKwargs_NoToken(inputs, prev) == [input |-> inputs, previous_response_id |-> NoneId]

\* kwargs of a request: _build_response_kwargs keeps input and continuation token
BuildResponseKwargs(inputs, prev) == [input |-> inputs, previous_response_id |-> prev]


(***************************************************************************)
(* The environment's inputs.                                              *)
(***************************************************************************)
\* raw "arguments" payloads of a function_call item: well-formed JSON, malformed JSON
WellFormed == "{\"query\":\"dentist\"}"
Malformed == "{oops"

\* the function_call items the model endpoint may return (name, raw arguments): a
\* search, a note mutation with malformed arguments, a tool that is not registered
CallChoices == {<<"search_notes", WellFormed>>, <<"update_note", Malformed>>,
                <<"foo", WellFormed>>}

\* json.loads(raw_args): the parsed map, or "raise" on malformed JSON
JsonLoads(raw) == IF raw = Malformed THEN "raise"
                  ELSE IF raw = "{}" THEN "{}"
                  ELSE "{query:dentist}"

\* lists of note ids a search may return (unsorted, and with a repeated id)
SampleResults == {<<2, 1, 2>>}

\* text of the k-th event the streaming channels deliver, when it is a text-delta
\* event: empty, or a token that differs from every other event's
Deltas(k) == {"", "tok" \o ToString(k)}

\* output_text of the fallback response: possibly empty
FallbackTexts == {"", "answer"}

\* what a collaborator does during the dispatch of one tool call; the update_note
\* calls of CallChoices carry malformed arguments, which are replaced by {}: the
\* id handed to NoteService.update_note is None, get_note finds no note for it
\* before the repository is asked, and the call ends as "not found"
CollaboratorOutcomes(name) ==
    CASE name = "search_notes" -> {[kind |-> "results", ids |-> r] : r \in SampleResults}
                                   \cup {[kind |-> "raise"]}
      [] name = "create_note"  -> {[kind |-> "created"], [kind |-> "raise"]}
      [] name = "update_note"  -> {[kind |-> "missing"]}
      [] name = "delete_note"  -> {[kind |-> "deleted"], [kind |-> "missing"]}
      [] OTHER                 -> {[kind |-> "none"]}

(***************************************************************************)
(* AgentService._dispatch_tool and the except around it in chat_stream:   *)
(* the result of one tool call and the ids it adds to the Source Id Set.  *)
(***************************************************************************)

\* only the first result's id is collected
DispatchAdds_FirstOnly(name, out) ==
    IF name = "search_notes" /\ out.kind = "results" /\ Len(out.ids) > 0
    THEN {out.ids[1]} ELSE {}

\* ids added to collect_source_ids by the call
DispatchAdds(name, out) ==
    IF name = "search_notes" /\ out.kind = "results" THEN SeqToSet(out.ids) ELSE {}

\* a name that is not registered is handled as a search
Branch_DefaultSearch(name) == IF name \in ToolNames THEN name ELSE "search_notes"

\* the chain of "if name == ..." of _dispatch_tool: the tool operation the call
\* is handed to, "unknown" when no comparison matches
Branch(name) == IF name \in ToolNames THEN name ELSE "unknown"

\* no handler around the dispatch
DispatchCatches_None(out) == FALSE

\* "except Exception as err" around "await self._dispatch_tool(...)": whatever a
\* collaborator raises is caught
DispatchCatches(out) == TRUE

\* the result fed back to the model; a raised exception becomes {"error": str(err)}
DispatchResult(name, out) ==
    CASE out.kind = "raise"   -> [error |-> "collaborator failed"]
      [] out.kind = "results" -> [results |-> out.ids]
      [] out.kind = "created" -> [status |-> "success"]
      [] out.kind = "updated" -> [status |-> "success"]
      [] out.kind = "deleted" -> [status |-> "success"]
      [] out.kind = "missing" -> [status |-> "not_found"]
      [] OTHER                -> [error |-> "Unknown tool: " \o name]

(***************************************************************************)
(* Events.                                                                *)
(***************************************************************************)
EvError(msg) == [type |-> "error", message |-> msg]
EvFinalStart == [type |-> "final_start"]
EvFinalDelta(d) == [type |-> "final_delta", delta |-> d]
EvFinalDone(srcs, rid) == [type |-> "final_done", sources |-> srcs, response_id |-> rid]
EvFinal(text, srcs, rid) ==
    [type |-> "final", response |-> text, sources |-> srcs, response_id |-> rid]
EvToolCall(name, args, cid) ==
    [type |-> "tool_call", name |-> name, arguments |-> args, call_id |-> cid]
EvToolResult(name, cid) == [type |-> "tool_result", name |-> name, call_id |-> cid]

\* the function_call_output item appended to next_inputs
ToolOutputItem(cid, result) ==
    [type |-> "function_call_output", call_id |-> cid, output |-> result]

\* key of the user message among the input items (call ids start at 1)
UserKey == 0

\* what identifies a conversation input item: the user message, or the
\* call_id of a tool output
ItemKey(item) == IF item.type = "message" THEN UserKey ELSE item.call_id

\* the keys of the items of one request's input, in order
ItemKeys(inputs) == [i \in 1..Len(inputs) |-> ItemKey(inputs[i])]

NoKwargs == [input |-> <<>>, previous_response_id |-> NoneId]
NoResp == [outcome |-> "none"]

(***************************************************************************)
(* Initial state: chat_stream called with a message and an optional       *)
(* continuation token.                                                    *)
(***************************************************************************)
\* no note tool operation is running and no background task exists
InitNotesIdle ==
    /\ notes = <<>>
    /\ next_id = NoneId
    /\ tasks = <<>>
    /\ task_ends = {}
    /\ op_pc = "idle"
    /\ op_result = [status |-> "none"]
    /\ op_log = <<>>

\* no pair of dispatcher calls is being compared
InitArgsIdle ==
    /\ disp_name = "none"
    /\ raw_a = <<>>
    /\ raw_b = <<>>
    /\ call_a = <<>>
    /\ call_b = <<>>
    /\ result_a = <<>>
    /\ result_b = <<>>
    /\ disp_pc = "idle"

\* no single update_note call is being followed
InitUpdateIdle ==
    /\ upd_row = <<>>
    /\ upd_args = <<>>
    /\ upd_out = <<>>
    /\ upd_pc = "idle"

\* no writer of a note's tags is being followed
InitEnrichIdle ==
    /\ enr_tags = <<>>
    /\ enr_jobs = <<>>
    /\ enr_last = [by |-> "none"]
    /\ enr_updates = 0

\* no single create_note call is being followed
InitCreateIdle ==
    /\ crt_args = <<>>
    /\ crt_out = <<>>
    /\ crt_pc = "idle"

\* no request passes the rate limiter
InitRateIdle ==
    /\ rl_enabled = FALSE
    /\ rl_now = 0
    /\ rl_attempts = <<>>
    /\ rl_log = <<>>

InitExtIdle == InitEnrichIdle /\ InitCreateIdle /\ InitRateIdle

InitSearchIdle ==
    /\ req_limit = NoneArg
    /\ eff_limit = NoneArg
    /\ req_alpha = NoneArg
    /\ eff_alpha = NoneArg
    /\ search_pc = "idle"
    /\ req_query = NoneStr
    /\ embed_out = "not_called"
    /\ eff_query = NoneStr
    /\ eff_embedding = "unset"
    /\ search_out = [kind |-> "none"]

\* the locals of chat_stream before the loop, and the history variables
InitLocals ==
    /\ turn = 0
    /\ events = <<>>
    /\ next_inputs = <<UserItem>>
    /\ collected_source_ids = {}
    /\ pending_tool_calls = <<>>
    /\ call_idx = 0
    /\ call_args = "{}"
    /\ stream_kwargs = NoKwargs
    /\ stream_n = 0
    /\ n_turn_req = 0
    /\ n_stream_req = 0
    /\ n_fallback_req = 0
    /\ n_calls = 0
    /\ n_dispatch = 0
    /\ n_domain_ops = 0
    /\ last_req_token = NoneId
    /\ sent_log = <<>>
    /\ last_resp_id = NoneId
    /\ closed_at = "none"
    /\ returned_ids = {}
    /\ stream_failed = "none"
    /\ stream_deltas = 0
    /\ stream_text = <<>>
    /\ fallback_resp = NoResp
    /\ returned_at = "none"

InitChat ==
    /\ pc = "turn"
    /\ previous_response_id \in {NoneId, CallerToken}
    /\ InitLocals

Init == InitChat /\ InitSearchIdle /\ InitNotesIdle /\ InitArgsIdle /\ InitUpdateIdle /\ InitExtIdle

(***************************************************************************)
(* The turn loop: one non-streamed request per iteration.                 *)
(***************************************************************************)
histVars == <<n_calls, n_dispatch, n_domain_ops, returned_ids, stream_failed, stream_deltas, stream_text,
              fallback_resp, returned_at>>

\* number of requests issued so far; the k-th request's response has id k
Requests == n_turn_req + n_stream_req + n_fallback_req

\* function_call items of one response: names and raw arguments chosen by the model
Batches(n) == UNION {[1..k -> CallChoices] : k \in 1..n}

ToolCallItem(choice, cid) ==
    [type |-> "function_call", name |-> choice[1], arguments |-> choice[2], call_id |-> cid]


\* the loop never ends by itself
LoopContinues_Always(t) == TRUE

\* the loop bound off by one: a fourth iteration
LoopContinues_OffByOne(t) == t + 1 <= MaxTurns

\* "for turn in range(3)": is another iteration left after iteration t
LoopContinues(t) == t + 1 < MaxTurns

\* end of one iteration of the for loop: the next iteration, or the code after the loop
\* (which yields final_start before it opens the stream)
EndIteration(evs) ==
    /\ turn' = turn + 1
    /\ IF LoopContinues(turn)
       THEN /\ events' = evs
            /\ pc' = "turn"
       ELSE /\ events' = Append(evs, EvFinalStart)
            /\ pc' = "budget_open"

\* responses.create raises: yield error and return
TurnRequestRaises ==
    /\ pc = "turn"
    /\ last_req_token' = BuildResponseKwargs(next_inputs, previous_response_id).previous_response_id
    /\ sent_log' = Append(sent_log, ItemKeys(BuildResponseKwargs(next_inputs, previous_response_id).input))
    /\ n_turn_req' = n_turn_req + 1
    /\ events' = Append(events, EvError(ErrTurn))
    /\ returned_at' = "turn_error"
    /\ pc' = "done"
    /\ UNCHANGED <<turn, next_inputs, previous_response_id, collected_source_ids,
                   pending_tool_calls, call_idx, call_args, stream_kwargs, stream_n,
                   n_stream_req, n_fallback_req, n_calls, n_dispatch, n_domain_ops, returned_ids, stream_failed,
                   stream_deltas, stream_text, fallback_resp, searchVars, noteVars, argVars, updVars, extVars, closed_at,
                   last_resp_id>>

\* the response holds no function_call item: yield final_start
TurnRespondsFinal ==
    /\ pc = "turn"
    /\ last_req_token' = BuildResponseKwargs(next_inputs, previous_response_id).previous_response_id
    /\ sent_log' = Append(sent_log, ItemKeys(BuildResponseKwargs(next_inputs, previous_response_id).input))
    /\ last_resp_id' = Requests + 1
    /\ n_turn_req' = n_turn_req + 1
    /\ previous_response_id' = Requests + 1
    /\ pending_tool_calls' = <<>>
    /\ events' = Append(events, EvFinalStart)
    /\ pc' = "final_open"
    /\ UNCHANGED <<turn, next_inputs, collected_source_ids, call_idx, call_args,
                   stream_kwargs, stream_n, n_stream_req, n_fallback_req, histVars,
                   searchVars, noteVars, argVars, updVars, extVars, closed_at>>

\* the response holds function_call items: next_inputs = [] and the batch starts
TurnRespondsTools ==
    /\ pc = "turn"
    /\ last_req_token' = BuildResponseKwargs(next_inputs, previous_response_id).previous_response_id
    /\ sent_log' = Append(sent_log, ItemKeys(BuildResponseKwargs(next_inputs, previous_response_id).input))
    /\ last_resp_id' = Requests + 1
    /\ n_calls < MaxCalls
    /\ \E b \in Batches(Min(MaxBatch, MaxCalls - n_calls)) :
          /\ pending_tool_calls' = [i \in 1..Len(b) |-> ToolCallItem(b[i], n_calls + i)]
          /\ n_calls' = n_calls + Len(b)
    /\ n_turn_req' = n_turn_req + 1
    /\ previous_response_id' = Requests + 1
    /\ next_inputs' = <<>>
    /\ call_idx' = 1
    /\ pc' = "tool_call"
    /\ UNCHANGED <<turn, events, collected_source_ids, call_args, stream_kwargs,
                   stream_n, n_stream_req, n_fallback_req, n_dispatch, n_domain_ops, returned_ids,
                   stream_failed, stream_deltas, stream_text, fallback_resp, returned_at, searchVars, noteVars, argVars, updVars, extVars, closed_at>>

(***************************************************************************)
(* The tool-call batch.                                                   *)
(***************************************************************************)
\* the raw text is kept when it does not parse
ParseArguments_KeepsRaw(raw) == IF JsonLoads(raw) = "raise" THEN raw ELSE JsonLoads(raw)

\* args = json.loads(raw_args), {} when that raises
ParseArguments(raw) == IF JsonLoads(raw) = "raise" THEN "{}" ELSE JsonLoads(raw)


\* the tool_result event of a batch always names the batch's first call
ToolResultEvent_FirstCall(call) ==
    EvToolResult(pending_tool_calls[1].name, pending_tool_calls[1].call_id)

\* the tool_result event of a call
ToolResultEvent(call) == EvToolResult(call.name, call.call_id)

\* yield tool_call
EmitToolCall ==
    /\ pc = "tool_call"
    /\ LET call == pending_tool_calls[call_idx]
           args == ParseArguments(call.arguments)
       IN /\ call_args' = args
          /\ events' = Append(events, EvToolCall(call.name, args, call.call_id))
    /\ pc' = "dispatch"
    /\ UNCHANGED <<turn, next_inputs, previous_response_id, collected_source_ids,
                   pending_tool_calls, call_idx, stream_kwargs, stream_n, n_turn_req,
                   n_stream_req, n_fallback_req, histVars, searchVars, noteVars, argVars, updVars, extVars, closed_at,
                   last_req_token, sent_log, last_resp_id>>

\* await _dispatch_tool (exceptions caught), yield tool_result, append the tool
\* output; after the last call of the batch the iteration ends
DispatchTool ==
    /\ pc = "dispatch"
    /\ LET call == pending_tool_calls[call_idx]
           branch == Branch(call.name)
       IN \E out \in CollaboratorOutcomes(branch) :
             /\ n_domain_ops' = n_domain_ops + (IF branch \in ToolNames THEN 1 ELSE 0)
             /\ IF out.kind = "raise" /\ ~DispatchCatches(out)
                THEN \* the exception leaves the generator
                     /\ pc' = "done"
                     /\ returned_at' = "dispatch_raised"
                     /\ UNCHANGED <<collected_source_ids, returned_ids, next_inputs,
                                    events, call_idx, turn>>
                ELSE /\ collected_source_ids' =
                            collected_source_ids \cup DispatchAdds(branch, out)
                     /\ returned_ids' = returned_ids \cup
                            (IF out.kind = "results" THEN SeqToSet(out.ids) ELSE {})
                     /\ next_inputs' = Append(next_inputs,
                            ToolOutputItem(call.call_id, DispatchResult(call.name, out)))
                     /\ IF call_idx < Len(pending_tool_calls)
                        THEN /\ events' = Append(events, ToolResultEvent(call))
                             /\ call_idx' = call_idx + 1
                             /\ pc' = "tool_call"
                             /\ turn' = turn
                        ELSE /\ EndIteration(Append(events, ToolResultEvent(call)))
                             /\ call_idx' = call_idx
                     /\ returned_at' = returned_at
    /\ n_dispatch' = n_dispatch + 1
    /\ UNCHANGED <<previous_response_id, pending_tool_calls, call_args, stream_kwargs,
                   stream_n, n_turn_req, n_stream_req, n_fallback_req, n_calls,
                   stream_failed, stream_deltas, stream_text, fallback_resp, searchVars, noteVars, argVars, updVars, extVars, closed_at,
                   last_req_token, sent_log, last_resp_id>>

(***************************************************************************)
(* The streamed finalization inside the loop (no pending tool calls).     *)
(***************************************************************************)
\* "next_inputs or [{"role": "user", "content": message}]"
StreamInputs(inputs) == IF inputs = <<>> THEN <<UserItem>> ELSE inputs

toolVars == <<pending_tool_calls, call_idx, call_args>>

\* responses.stream(**stream_kwargs) opens
StreamOpens ==
    /\ pc = "final_open"
    /\ stream_kwargs' = BuildResponseKwargs(StreamInputs(next_inputs), previous_response_id)
    /\ last_req_token' = stream_kwargs'.previous_response_id
    /\ sent_log' = Append(sent_log, ItemKeys(stream_kwargs'.input))
    /\ n_stream_req' = n_stream_req + 1
    /\ stream_deltas' = 0
    /\ stream_text' = <<>>
    /\ pc' = "stream"
    /\ UNCHANGED <<turn, events, next_inputs, previous_response_id, collected_source_ids,
                   toolVars, stream_n, n_turn_req, n_fallback_req, n_calls, n_dispatch, n_domain_ops,
                   returned_ids, stream_failed, fallback_resp, returned_at, searchVars, noteVars, argVars, updVars, extVars, closed_at,
                   last_resp_id>>

\* responses.stream(**stream_kwargs) raises when it is opened
StreamOpenRaises ==
    /\ pc = "final_open"
    /\ stream_kwargs' = BuildResponseKwargs(StreamInputs(next_inputs), previous_response_id)
    /\ last_req_token' = stream_kwargs'.previous_response_id
    /\ sent_log' = Append(sent_log, ItemKeys(stream_kwargs'.input))
    /\ n_stream_req' = n_stream_req + 1
    /\ stream_failed' = "loop"
    /\ stream_deltas' = 0
    /\ stream_text' = <<>>
    /\ pc' = "fallback"
    /\ UNCHANGED <<turn, events, next_inputs, previous_response_id, collected_source_ids,
                   toolVars, stream_n, n_turn_req, n_fallback_req, n_calls, n_dispatch, n_domain_ops,
                   returned_ids, fallback_resp, returned_at, searchVars, noteVars, argVars, updVars, extVars, closed_at,
                   last_resp_id>>

\* a final_delta event for every text-delta event, empty or not
DeltaEvents_All(d) == <<EvFinalDelta(d)>>

\* the events of one text-delta event: "if delta: yield final_delta"
DeltaEvents(d) == IF d # "" THEN <<EvFinalDelta(d)>> ELSE <<>>

\* number of final_delta events among the last stream's events
CountDeltas(d) == IF d # "" THEN 1 ELSE 0

\* a response.output_text.delta event
StreamDelta ==
    /\ pc = "stream"
    /\ stream_n < MaxStreamEvents
    /\ \E d \in Deltas(stream_n + 1) :
          /\ events' = events \o DeltaEvents(d)
          /\ stream_deltas' = stream_deltas + CountDeltas(d)
          /\ stream_text' = Append(stream_text, d)
    /\ stream_n' = stream_n + 1
    /\ UNCHANGED <<pc, turn, next_inputs, previous_response_id, collected_source_ids,
                   toolVars, stream_kwargs, n_turn_req, n_stream_req, n_fallback_req,
                   n_calls, n_dispatch, n_domain_ops, returned_ids, stream_failed, fallback_resp,
                   returned_at, searchVars, noteVars, argVars, updVars, extVars, closed_at,
                   last_req_token, sent_log, last_resp_id>>

\* what the loop's finalizer does on a response.error event: yield error, go on reading
StreamErrorEvents == <<EvError(ErrStreaming)>>

\* a response.error event
StreamErrorEvent ==
    /\ pc = "stream"
    /\ stream_n < MaxStreamEvents
    /\ events' = events \o StreamErrorEvents
    /\ stream_n' = stream_n + 1
    /\ UNCHANGED <<pc, turn, next_inputs, previous_response_id, collected_source_ids,
                   toolVars, stream_kwargs, n_turn_req, n_stream_req, n_fallback_req,
                   histVars, searchVars, noteVars, argVars, updVars, extVars, closed_at,
                   last_req_token, sent_log, last_resp_id>>

\* ids a completion event or a fallback response may carry: none, or the request's id
ResponseIds == {NoneId, Requests}

\* sources of a terminal event: sorted(collected_source_ids)
SourcesOf(ids) == Sorted(ids)

\* a response.completed event: yield final_done and return
StreamCompleted ==
    /\ pc = "stream"
    /\ \E rid \in ResponseIds :
          /\ previous_response_id' = OrElse(rid, previous_response_id)
          /\ last_resp_id' = (IF rid # NoneId THEN rid ELSE last_resp_id)
          /\ events' = Append(events,
                 EvFinalDone(SourcesOf(collected_source_ids), previous_response_id'))
    /\ returned_at' = "final_done"
    /\ pc' = "done"
    /\ UNCHANGED <<turn, next_inputs, collected_source_ids, toolVars, stream_kwargs,
                   stream_n, n_turn_req, n_stream_req, n_fallback_req, n_calls,
                   n_dispatch, n_domain_ops, returned_ids, stream_failed, stream_deltas, stream_text,
                   fallback_resp, searchVars, noteVars, argVars, updVars, extVars, closed_at,
                   last_req_token, sent_log>>

\* the stream ends without a response.completed event and without raising: the try
\* block ends, control leaves the "if not pending_tool_calls" block, next_inputs = [],
\* the for loop over the empty batch does nothing, and the iteration ends
StreamEnds ==
    /\ pc = "stream"
    /\ next_inputs' = <<>>
    /\ EndIteration(events)
    /\ UNCHANGED <<previous_response_id, collected_source_ids, toolVars, stream_kwargs,
                   stream_n, n_turn_req, n_stream_req, n_fallback_req, histVars,
                   searchVars, noteVars, argVars, updVars, extVars, closed_at,
                   last_req_token, sent_log, last_resp_id>>

\* the stream raises while it is read
StreamRaises ==
    /\ pc = "stream"
    /\ stream_failed' = "loop"
    /\ pc' = "fallback"
    /\ UNCHANGED <<turn, events, next_inputs, previous_response_id, collected_source_ids,
                   toolVars, stream_kwargs, stream_n, n_turn_req, n_stream_req,
                   n_fallback_req, n_calls, n_dispatch, n_domain_ops, returned_ids, stream_deltas, stream_text,
                   fallback_resp, returned_at, searchVars, noteVars, argVars, updVars, extVars, closed_at,
                   last_req_token, sent_log, last_resp_id>>

(***************************************************************************)
(* The non-streamed fallback of the loop's finalizer.                     *)
(***************************************************************************)

\* the text of the final event: output_text, or the apology when there is none
FallbackText(text) == IF text # "" THEN text ELSE ErrTurn

\* responses.create(**stream_kwargs) returns: yield final and return
FallbackReturns ==
    /\ pc = "fallback"
    /\ last_req_token' = stream_kwargs.previous_response_id
    /\ sent_log' = Append(sent_log, ItemKeys(stream_kwargs.input))
    /\ n_fallback_req' = n_fallback_req + 1
    /\ \E text \in FallbackTexts, rid \in {NoneId, Requests + 1} :
          /\ previous_response_id' = OrElse(rid, previous_response_id)
          /\ last_resp_id' = (IF rid # NoneId THEN rid ELSE last_resp_id)
          /\ fallback_resp' = [outcome |-> "returned", text |-> text, id |-> rid,
                               kwargs |-> stream_kwargs]
          /\ events' = Append(events,
                 EvFinal(FallbackText(text), SourcesOf(collected_source_ids),
                         previous_response_id'))
    /\ returned_at' = "final"
    /\ pc' = "done"
    /\ UNCHANGED <<turn, next_inputs, collected_source_ids, toolVars, stream_kwargs,
                   stream_n, n_turn_req, n_stream_req, n_calls, n_dispatch, n_domain_ops,
                   returned_ids, stream_failed, stream_deltas, stream_text, searchVars, noteVars, argVars, updVars, extVars, closed_at>>

\* responses.create(**stream_kwargs) raises: yield error and return
FallbackRaises ==
    /\ pc = "fallback"
    /\ last_req_token' = stream_kwargs.previous_response_id
    /\ sent_log' = Append(sent_log, ItemKeys(stream_kwargs.input))
    /\ n_fallback_req' = n_fallback_req + 1
    /\ fallback_resp' = [outcome |-> "raised"]
    /\ events' = Append(events, EvError(ErrFallback))
    /\ returned_at' = "fallback_error"
    /\ pc' = "done"
    /\ UNCHANGED <<turn, next_inputs, previous_response_id, collected_source_ids,
                   toolVars, stream_kwargs, stream_n, n_turn_req, n_stream_req, n_calls,
                   n_dispatch, n_domain_ops, returned_ids, stream_failed, stream_deltas, stream_text,
                   searchVars, noteVars, argVars, updVars, extVars, closed_at,
                   last_resp_id>>

(***************************************************************************)
(* The finalization after the loop (all iterations returned tool calls,   *)
(* or the last iteration's stream ended without completing).              *)
(***************************************************************************)
\* responses.stream(**stream_kwargs) opens; the input is next_inputs as it is
BudgetStreamOpens ==
    /\ pc = "budget_open"
    /\ stream_kwargs' = BuildResponseKwargs(next_inputs, previous_response_id)
    /\ last_req_token' = stream_kwargs'.previous_response_id
    /\ sent_log' = Append(sent_log, ItemKeys(stream_kwargs'.input))
    /\ n_stream_req' = n_stream_req + 1
    /\ stream_deltas' = 0
    /\ stream_text' = <<>>
    /\ pc' = "budget_stream"
    /\ UNCHANGED <<turn, events, next_inputs, previous_response_id, collected_source_ids,
                   toolVars, stream_n, n_turn_req, n_fallback_req, n_calls, n_dispatch, n_domain_ops,
                   returned_ids, stream_failed, fallback_resp, returned_at, searchVars, noteVars, argVars, updVars, extVars, closed_at,
                   last_resp_id>>

\* what the handler "except Exception" after the loop does: yield final with the
\* fixed fail-safe text; no request is made
BudgetExceptEvents ==
    <<EvFinal(FailSafe, SourcesOf(collected_source_ids), previous_response_id)>>

\* responses.stream(**stream_kwargs) raises when it is opened
BudgetStreamOpenRaises ==
    /\ pc = "budget_open"
    /\ stream_kwargs' = BuildResponseKwargs(next_inputs, previous_response_id)
    /\ last_req_token' = stream_kwargs'.previous_response_id
    /\ sent_log' = Append(sent_log, ItemKeys(stream_kwargs'.input))
    /\ n_stream_req' = n_stream_req + 1
    /\ stream_failed' = "budget"
    /\ stream_deltas' = 0
    /\ stream_text' = <<>>
    /\ events' = events \o BudgetExceptEvents
    /\ returned_at' = "budget_final"
    /\ pc' = "done"
    /\ UNCHANGED <<turn, next_inputs, previous_response_id, collected_source_ids,
                   toolVars, stream_n, n_turn_req, n_fallback_req, n_calls, n_dispatch, n_domain_ops,
                   returned_ids, fallback_resp, searchVars, noteVars, argVars, updVars, extVars, closed_at,
                   last_resp_id>>

\* a response.output_text.delta event
BudgetStreamDelta ==
    /\ pc = "budget_stream"
    /\ stream_n < MaxStreamEvents
    /\ \E d \in Deltas(stream_n + 1) :
          /\ events' = events \o DeltaEvents(d)
          /\ stream_deltas' = stream_deltas + CountDeltas(d)
          /\ stream_text' = Append(stream_text, d)
    /\ stream_n' = stream_n + 1
    /\ UNCHANGED <<pc, turn, next_inputs, previous_response_id, collected_source_ids,
                   toolVars, stream_kwargs, n_turn_req, n_stream_req, n_fallback_req,
                   n_calls, n_dispatch, n_domain_ops, returned_ids, stream_failed, fallback_resp,
                   returned_at, searchVars, noteVars, argVars, updVars, extVars, closed_at,
                   last_req_token, sent_log, last_resp_id>>

\* a response.error event: this copy of the finalizer has no branch for it
BudgetStreamErrorEvent ==
    /\ pc = "budget_stream"
    /\ stream_n < MaxStreamEvents
    /\ stream_n' = stream_n + 1
    /\ UNCHANGED <<pc, turn, events, next_inputs, previous_response_id,
                   collected_source_ids, toolVars, stream_kwargs, n_turn_req,
                   n_stream_req, n_fallback_req, histVars, searchVars, noteVars, argVars, updVars, extVars, closed_at,
                   last_req_token, sent_log, last_resp_id>>

\* a response.completed event: yield final_done and return
BudgetStreamCompleted ==
    /\ pc = "budget_stream"
    /\ \E rid \in ResponseIds :
          /\ previous_response_id' = OrElse(rid, previous_response_id)
          /\ last_resp_id' = (IF rid # NoneId THEN rid ELSE last_resp_id)
          /\ events' = Append(events,
                 EvFinalDone(SourcesOf(collected_source_ids), previous_response_id'))
    /\ returned_at' = "budget_final_done"
    /\ pc' = "done"
    /\ UNCHANGED <<turn, next_inputs, collected_source_ids, toolVars, stream_kwargs,
                   stream_n, n_turn_req, n_stream_req, n_fallback_req, n_calls,
                   n_dispatch, n_domain_ops, returned_ids, stream_failed, stream_deltas, stream_text,
                   fallback_resp, searchVars, noteVars, argVars, updVars, extVars, closed_at,
                   last_req_token, sent_log>>

\* the stream ends without a response.completed event: the generator returns
BudgetStreamEnds ==
    /\ pc = "budget_stream"
    /\ returned_at' = "budget_end"
    /\ pc' = "done"
    /\ UNCHANGED <<turn, events, next_inputs, previous_response_id, collected_source_ids,
                   toolVars, stream_kwargs, stream_n, n_turn_req, n_stream_req,
                   n_fallback_req, n_calls, n_dispatch, n_domain_ops, returned_ids, stream_failed,
                   stream_deltas, stream_text, fallback_resp, searchVars, noteVars, argVars, updVars, extVars, closed_at,
                   last_req_token, sent_log, last_resp_id>>

\* the stream raises while it is read
BudgetStreamRaises ==
    /\ pc = "budget_stream"
    /\ stream_failed' = "budget"
    /\ events' = events \o BudgetExceptEvents
    /\ returned_at' = "budget_final"
    /\ pc' = "done"
    /\ UNCHANGED <<turn, next_inputs, previous_response_id, collected_source_ids,
                   toolVars, stream_kwargs, stream_n, n_turn_req, n_stream_req,
                   n_fallback_req, n_calls, n_dispatch, n_domain_ops, returned_ids, stream_deltas, stream_text,
                   fallback_resp, searchVars, noteVars, argVars, updVars, extVars, closed_at,
                   last_req_token, sent_log, last_resp_id>>

(***************************************************************************)
(* The specification of one chat_stream invocation read to its end.       *)
(***************************************************************************)
Next ==
    \/ TurnRequestRaises
    \/ TurnRespondsFinal
    \/ TurnRespondsTools
    \/ EmitToolCall
    \/ DispatchTool
    \/ StreamOpens
    \/ StreamOpenRaises
    \/ StreamDelta
    \/ StreamErrorEvent
    \/ StreamCompleted
    \/ StreamEnds
    \/ StreamRaises
    \/ FallbackReturns
    \/ FallbackRaises
    \/ BudgetStreamOpens
    \/ BudgetStreamOpenRaises
    \/ BudgetStreamDelta
    \/ BudgetStreamErrorEvent
    \/ BudgetStreamCompleted
    \/ BudgetStreamEnds
    \/ BudgetStreamRaises

Spec == Init /\ [][Next]_vars

\* the consumer keeps iterating and every await of the generator returns or
\* raises: a step that can be taken is eventually taken
SpecLive == Init /\ [][Next]_vars /\ WF_vars(Next)

(***************************************************************************)
(* The chat endpoint's event_iterator: one frame per event of chat_stream, *)
(* and an error frame when chat_stream raises.                            *)
(***************************************************************************)
\* "event: <type>" and "data: <json of the event>"
Frame(evt) == [event |-> evt.type, data |-> evt]

\* the frames sent for a chat_stream run that yielded evs and then returned
\* (raised = FALSE) or raised an exception (raised = TRUE)
Frames(evs, raised) ==
    [i \in 1..Len(evs) |-> Frame(evs[i])]
        \o (IF raised THEN <<Frame(EvError(ErrStreaming))>> ELSE <<>>)

\* the frames of the invocation, once chat_stream has ended
SentFrames == Frames(events, returned_at = "dispatch_raised")

(***************************************************************************)
(* The consumer closes the generator: GeneratorExit is thrown at the yield *)
(* it is suspended at, or CancelledError at the await it is suspended at. *)
(***************************************************************************)
\* where the generator can be suspended: awaiting a model request ("turn",
\* "final_open", "fallback", "budget_open"), a tool dispatch ("dispatch"), a
\* stream event ("stream", "budget_stream"), or at a yield between events
SuspensionPoints == {"turn", "tool_call", "dispatch", "final_open", "stream",
                     "fallback", "budget_open", "budget_stream"}

\* the handler around the loop's stream catches the close as it catches errors
ClosePropagates_NotFromStream(p) == p # "stream"

\* every handler of chat_stream is "except Exception": GeneratorExit and
\* CancelledError derive from BaseException and pass through all of them
ClosePropagates(p) == TRUE

\* inside "async with self._client.responses.stream(...)"
StreamOpen == pc \in {"stream", "budget_stream"}

\* the close unwinds the generator, leaving the "async with" of an open stream;
\* a handler that caught it would go on to the fallback request
Close ==
    /\ pc \in SuspensionPoints
    /\ closed_at = "none"
    /\ closed_at' = pc
    /\ IF ClosePropagates(pc)
       THEN /\ pc' = "closed"
            /\ stream_failed' = stream_failed
       ELSE /\ pc' = "fallback"
            /\ stream_failed' = "loop"
    /\ UNCHANGED <<turn, events, next_inputs, previous_response_id, collected_source_ids,
                   toolVars, stream_kwargs, stream_n, n_turn_req, n_stream_req,
                   n_fallback_req, n_calls, n_dispatch, n_domain_ops, returned_ids,
                   stream_deltas, stream_text, fallback_resp, returned_at,
                   last_req_token, sent_log, last_resp_id, searchVars, noteVars, argVars, updVars, extVars>>

NextClose == Next \/ Close

SpecClose == Init /\ [][NextClose]_vars

(***************************************************************************)
(* AgentService._tool_search_notes: the limit handed to the search        *)
(* collaborator.                                                          *)
(***************************************************************************)
\* requested limits: absent, and the integers around the declared range [1, 200]
LimitInputs == {NoneArg} \cup (-LimitSpan .. LimitSpan)

\* "limit or 20": None and 0 are falsy
LimitOrDefault(limit) == IF limit = NoneArg \/ limit = 0 THEN DefaultLimit ELSE limit

\* limit_val = max(1, min(int(limit or 20), 200))
LimitVal(limit) == Max(MinLimit, Min(LimitOrDefault(limit), MaxLimit))

\* AgentSearchRequest.limit: Field(default=20, ge=1, le=200)
LimitFieldValid(limit) == limit >= MinLimit /\ limit <= MaxLimit

\* requested alphas, in tenths: absent, and the values around the declared range [0, 1]
AlphaInputs == {NoneArg} \cup ((AlphaMin - AlphaSpan) .. (AlphaMax + AlphaSpan))

\* alpha_val = float(alpha) if alpha is not None else 0.5
AlphaVal(alpha) == IF alpha # NoneArg THEN alpha ELSE DefaultAlpha

\* AgentSearchRequest.alpha: Field(default=0.5, ge=0, le=1)
AlphaFieldValid(alpha) == alpha >= AlphaMin /\ alpha <= AlphaMax

\* _make_agent_search_request: AgentSearchRequest(**kwargs) validates every field
RequestValid(limit, alpha) == LimitFieldValid(limit) /\ AlphaFieldValid(alpha)

\* requested queries: absent, empty, and a text
QueryInputs == {NoneStr, "", "dentist"}

\* truthiness of an optional string: None and "" are falsy
Truthy(str) == str # NoneStr /\ str # ""

\* "query or None"
OrNone(str) == IF Truthy(str) THEN str ELSE NoneStr

\* create_embedding is awaited only "if query": it returns a vector, returns
\* None (its own handler caught the failure), or raises
EmbeddingOutcomes(query) ==
    IF Truthy(query) THEN {"vector", "none", "raise"} ELSE {"not_called"}

\* query_embedding: the vector when create_embedding returned one; None when it
\* was not called, returned None, or raised (except Exception: query_embedding = None)
QueryEmbedding(emb) == IF emb = "vector" THEN "vector" ELSE "absent"

\* what search_notes_agent does: returns rows or raises
SearchOutcomes ==
    {[kind |-> "results", ids |-> r] : r \in SampleResults} \cup {[kind |-> "raise"]}

\* no chat_stream invocation is running
InitChatIdle ==
    /\ pc = "idle"
    /\ previous_response_id = NoneId
    /\ InitLocals

InitSearch ==
    /\ InitChatIdle
    /\ InitNotesIdle
    /\ InitArgsIdle
    /\ InitUpdateIdle
    /\ InitExtIdle
    /\ req_limit \in LimitInputs
    /\ eff_limit = NoneArg
    /\ req_alpha \in AlphaInputs
    /\ eff_alpha = NoneArg
    /\ search_pc = "call"
    /\ req_query \in QueryInputs
    /\ embed_out = "not_called"
    /\ eff_query = NoneStr
    /\ eff_embedding = "unset"
    /\ search_out = [kind |-> "none"]

\* the request is built with limit_val and alpha_val and handed to
\* search_notes_agent together with the query embedding; a field outside its
\* declared range raises a validation error out of the tool instead, and the
\* search is not run
ToolSearchNotes ==
    /\ search_pc = "call"
    /\ \E emb \in EmbeddingOutcomes(req_query) :
          /\ embed_out' = emb
          /\ IF RequestValid(LimitVal(req_limit), AlphaVal(req_alpha))
             THEN /\ eff_limit' = LimitVal(req_limit)
                  /\ eff_alpha' = AlphaVal(req_alpha)
                  /\ eff_query' = OrNone(req_query)
                  /\ eff_embedding' = QueryEmbedding(emb)
                  /\ \E found \in SearchOutcomes :
                        /\ search_out' = found
                        /\ search_pc' = IF found.kind = "raise" THEN "search_raised"
                                        ELSE "searched"
             ELSE /\ eff_limit' = eff_limit
                  /\ eff_alpha' = eff_alpha
                  /\ eff_query' = eff_query
                  /\ eff_embedding' = eff_embedding
                  /\ search_out' = [kind |-> "raise"]
                  /\ search_pc' = "raised"
    /\ UNCHANGED <<req_limit, req_alpha, req_query, chatVars, noteVars, argVars, updVars, extVars>>

NextSearch == ToolSearchNotes

SpecSearch == InitSearch /\ [][NextSearch]_vars

(***************************************************************************)
(* The note tool operations (create, update, delete), the note store they *)
(* act on, and the background embedding and tag-enrichment tasks that     *)
(* create and update spawn.                                               *)
(***************************************************************************)
\* the user of the invocation, and another user
Me == "me"
Other == "other"

\* the row of an id that no note has
Absent == [exists |-> FALSE, owner |-> "nobody", title |-> NoneStr,
           content |-> NoneStr, is_archived |-> NoneStr, tags |-> <<>>,
           embedded |-> FALSE]

NoteRec(owner, title, content, tags) ==
    [exists |-> TRUE, owner |-> owner, title |-> title, content |-> content,
     is_archived |-> "false", tags |-> tags, embedded |-> FALSE]

\* the store before the invocation: a note of the caller, a note of another user
InitialNotes == <<NoteRec(Me, "T", NoneStr, <<"a">>), NoteRec(Other, "T", "C", <<>>)>>

\* id arguments: absent, not a UUID, and the UUIDs of the store's rows (a note of
\* the caller, a note of another user, ids no note has)
IdArgs == {NoneArg, MalformedId} \cup (1..Len(notes))

\* text arguments: absent, blank, a text
TitleArgs == {NoneStr, " ", "T2"}
ContentArgs == {NoneStr, "C2"}

\* is_archived arguments: absent, true
ArchivedArgs == {NoneStr, "true"}

\* what a repository call does: it returns, or the database call raises
RepoOutcomes == {"ok", "raise"}

\* UUID(str(note_id)) does not raise ValueError
ValidUuid(id) == id \in 1..Len(notes)

\* str.strip()
Strip(s) == IF s = " " THEN "" ELSE s

\* the DTO validators and the services: text is stripped, blank text becomes None
NormalizeText(s) == IF s = NoneStr \/ Strip(s) = "" THEN NoneStr ELSE Strip(s)

\* AgentNoteUpdate(title=title, content=content, note_type=..., is_archived=
\* is_archived): the tool operation passes every field, so every field counts
\* as set, whatever its value
DtoFieldsSet == {"title", "content", "is_archived"}

\* raw_changes = update_dto.model_dump(exclude_unset=True), texts stripped and
\* blank title or content turned into None
UpdateChanges(args) ==
    [k \in DtoFieldsSet |->
        IF k \in {"title", "content"} THEN NormalizeText(args[k]) ELSE args[k]]

\* changes.get(key, default)
ChangesGet(changes, key, default) ==
    IF key \in DOMAIN changes THEN changes[key] ELSE default

\* "if not (merged_title or merged_content): raise ValueError"
UpdateRejected(changes, existing) ==
    /\ NormalizeText(ChangesGet(changes, "title", existing.title)) = NoneStr
    /\ NormalizeText(ChangesGet(changes, "content", existing.content)) = NoneStr

\* repo.update_fields: the row with the columns of changes replaced
UpdateFields(row, changes) ==
    [f \in DOMAIN row |-> IF f \in DOMAIN changes THEN changes[f] ELSE row[f]]

\* NoteService.get_note: the note exists and belongs to the user
GetNote(id, user) == ValidUuid(id) /\ notes[id].exists /\ notes[id].owner = user

\* only the embedding task is created
SpawnTasks_EmbeddingOnly(id) ==
    <<[kind |-> "embedding", note |-> id, pc |-> "spawned", seen |-> <<>>]>>

\* the two asyncio.create_task calls after a successful create or update
SpawnTasks(id) ==
    <<[kind |-> "embedding", note |-> id, pc |-> "spawned", seen |-> <<>>],
      [kind |-> "enrichment", note |-> id, pc |-> "spawned", seen |-> <<>>]>>

\* the tool operation returns result
OpReturns(name, id, found, result) ==
    /\ op_pc' = "returned"
    /\ op_result' = result
    /\ op_log' = Append(op_log, [name |-> name, id |-> id, found |-> found,
                                 outcome |-> "returned", result |-> result])

\* an exception leaves the tool operation
OpRaises(name, id, found) ==
    /\ op_pc' = "raised"
    /\ op_result' = [status |-> "none"]
    /\ op_log' = Append(op_log, [name |-> name, id |-> id, found |-> found,
                                 outcome |-> "raised", result |-> [status |-> "none"]])
    /\ UNCHANGED <<notes, next_id, tasks>>

InitNotes ==
    /\ InitChatIdle
    /\ InitSearchIdle
    /\ InitArgsIdle
    /\ InitUpdateIdle
    /\ InitExtIdle
    /\ notes = InitialNotes \o [i \in 1..FreeSlots |-> Absent]
    /\ next_id = Len(InitialNotes) + 1
    /\ tasks = <<>>
    /\ task_ends = {}
    /\ op_pc = "ready"
    /\ op_result = [status |-> "none"]
    /\ op_log = <<>>

\* _tool_create_note: the DTO's validator raises when title and content are both
\* blank; create_note stores the note; the two tasks are spawned; success
ToolCreateNote ==
    /\ op_pc # "idle"
    /\ Len(op_log) < MaxOps
    /\ next_id <= Len(notes)
    /\ \E title \in TitleArgs, content \in ContentArgs, db \in RepoOutcomes :
          LET t == NormalizeText(title)
              c == NormalizeText(content)
          IN IF (t = NoneStr /\ c = NoneStr) \/ db = "raise"
             THEN OpRaises("create_note", next_id, FALSE)
             ELSE /\ notes' = [notes EXCEPT ![next_id] = NoteRec(Me, t, c, <<>>)]
                  /\ next_id' = next_id + 1
                  /\ tasks' = tasks \o SpawnTasks(next_id)
                  /\ OpReturns("create_note", next_id, FALSE,
                               [status |-> "success", id |-> next_id])
    /\ UNCHANGED <<task_ends, chatVars, searchVars, argVars, updVars, extVars>>

\* _tool_update_note: update_note returns None when get_note finds no note of
\* the user; every DTO field is set, so title and content replace the stored
\* ones, and update_note raises when both end up empty
ToolUpdateNote ==
    /\ op_pc # "idle"
    /\ Len(op_log) < MaxOps
    /\ \E id \in IdArgs, db \in RepoOutcomes :
          LET found == GetNote(id, Me)
          IN IF ValidUuid(id) /\ db = "raise"
             THEN OpRaises("update_note", id, found)
             ELSE IF ~found
             THEN /\ OpReturns("update_note", id, found, [status |-> "not_found"])
                  /\ UNCHANGED <<notes, next_id, tasks>>
             ELSE \E title \in TitleArgs, content \in ContentArgs,
                     archived \in ArchivedArgs :
                     LET changes == UpdateChanges([title |-> title,
                                                   content |-> content,
                                                   is_archived |-> archived])
                     IN IF UpdateRejected(changes, notes[id])
                        THEN OpRaises("update_note", id, found)
                        ELSE /\ notes' = [notes EXCEPT
                                            ![id] = UpdateFields(notes[id], changes)]
                             /\ tasks' = tasks \o SpawnTasks(id)
                             /\ next_id' = next_id
                             /\ OpReturns("update_note", id, found,
                                          [status |-> "success", id |-> id])
    /\ UNCHANGED <<task_ends, chatVars, searchVars, argVars, updVars, extVars>>

\* _tool_delete_note: delete_note returns False when get_note finds no note of
\* the user, else the repository's delete; a repository call that raises is not
\* caught by the service or by the tool operation
ToolDeleteNote ==
    /\ op_pc # "idle"
    /\ Len(op_log) < MaxOps
    /\ \E id \in IdArgs, db \in RepoOutcomes :
          LET found == GetNote(id, Me)
          IN IF ValidUuid(id) /\ db = "raise"
             THEN OpRaises("delete_note", id, found)
             ELSE IF found
             THEN /\ notes' = [notes EXCEPT ![id] = Absent]
                  /\ OpReturns("delete_note", id, found, [status |-> "success"])
                  /\ UNCHANGED <<next_id, tasks>>
             ELSE /\ OpReturns("delete_note", id, found, [status |-> "not_found"])
                  /\ UNCHANGED <<notes, next_id, tasks>>
    /\ UNCHANGED <<task_ends, chatVars, searchVars, argVars, updVars, extVars>>

\* a task's failure reaches the tool operation that spawned it
TaskFailureResult_Surfaces(result) == [error |-> "task failed"]

\* both task bodies are wrapped in "try ... except Exception" that logs: a
\* failure leaves the result of the tool operation as it is
TaskFailureResult(result) == result

\* str.strip().lower() of a tag
Lower(t) == IF t = "B" THEN "b" ELSE t

RECURSIVE Dedup(_)
\* the tags in order, each kept at its first occurrence
Dedup(ts) ==
    IF ts = <<>> THEN <<>>
    ELSE LET init == Dedup(SubSeq(ts, 1, Len(ts) - 1))
             last == Lower(ts[Len(ts)])
         IN IF last \in SeqToSet(init) THEN init ELSE Append(init, last)

\* merged_tags: the enriched tags first, then the tags read from the store
MergeTags(new, current) == Dedup(new \o current)

\* tags the enrichment service may answer with
EnrichedTags == {<<"B">>, <<"a", "B">>}

\* the tasks without the i-th, which has ended
RemoveAt(ts, i) == SubSeq(ts, 1, i - 1) \o SubSeq(ts, i + 1, Len(ts))

\* a row update by the admin client: changes nothing when the row is gone
UpdateRow(id, field, value) ==
    IF notes[id].exists THEN [notes EXCEPT ![id][field] = value] ELSE notes

\* generate_and_store_note_embedding: no vector, or the vector is stored
EmbeddingTaskRuns ==
    /\ \E i \in 1..Len(tasks) :
          /\ tasks[i].kind = "embedding"
          /\ tasks[i].pc = "spawned"
          /\ tasks' = RemoveAt(tasks, i)
          /\ \/ notes' = notes
             \/ notes' = UpdateRow(tasks[i].note, "embedded", TRUE)
    /\ task_ends' = task_ends \cup {"done"}
    /\ UNCHANGED <<next_id, op_pc, op_result, op_log, chatVars, searchVars, argVars, updVars, extVars>>

\* enrich_and_store_note_tags, first part: the note's current tags are read
EnrichmentTaskReads ==
    /\ \E i \in 1..Len(tasks) :
          /\ tasks[i].kind = "enrichment"
          /\ tasks[i].pc = "spawned"
          /\ tasks' = [tasks EXCEPT ![i].pc = "read",
                                    ![i].seen = notes[tasks[i].note].tags]
    /\ UNCHANGED <<notes, next_id, task_ends, op_pc, op_result, op_log, chatVars,
                   searchVars, argVars, updVars, extVars>>

\* enrich_and_store_note_tags, second part: no result, or the merged tags are
\* written unless they equal the tags read
EnrichmentTaskWrites ==
    /\ \E i \in 1..Len(tasks) :
          /\ tasks[i].kind = "enrichment"
          /\ tasks[i].pc = "read"
          /\ tasks' = RemoveAt(tasks, i)
          /\ \/ notes' = notes
             \/ \E new \in EnrichedTags :
                   LET merged == MergeTags(new, tasks[i].seen)
                   IN notes' = (IF merged = tasks[i].seen THEN notes
                                ELSE UpdateRow(tasks[i].note, "tags", merged))
    /\ task_ends' = task_ends \cup {"done"}
    /\ UNCHANGED <<next_id, op_pc, op_result, op_log, chatVars, searchVars, argVars, updVars, extVars>>

\* a task raises at any of its awaits: the handler logs and the task ends
TaskFails ==
    /\ \E i \in 1..Len(tasks) :
          /\ tasks' = RemoveAt(tasks, i)
    /\ task_ends' = task_ends \cup {"failed"}
    /\ op_result' = TaskFailureResult(op_result)
    /\ UNCHANGED <<notes, next_id, op_pc, op_log, chatVars, searchVars, argVars, updVars, extVars>>

NextNotes ==
    \/ ToolCreateNote
    \/ ToolUpdateNote
    \/ ToolDeleteNote
    \/ EmbeddingTaskRuns
    \/ EnrichmentTaskReads
    \/ EnrichmentTaskWrites
    \/ TaskFails

SpecNotes == InitNotes /\ [][NextNotes]_vars

(***************************************************************************)
(* One update_note call on a note of the caller, with its arguments kept: *)
(* NoteService.update_note against a repository whose calls return.       *)
(***************************************************************************)
\* stored notes of the caller: with title, content or both, archived or not
UpdateRows ==
    {[NoteRec(Me, tc[1], tc[2], <<>>) EXCEPT !.is_archived = a] :
        tc \in {<<"T", "C">>, <<"T", NoneStr>>, <<NoneStr, "C">>},
        a \in {"false", "true"}}

InitUpdate ==
    /\ InitChatIdle
    /\ InitSearchIdle
    /\ InitNotesIdle
    /\ InitArgsIdle
    /\ InitExtIdle
    /\ upd_row \in UpdateRows
    /\ upd_args \in [title : TitleArgs, content : ContentArgs, is_archived : ArchivedArgs]
    /\ upd_out = [status |-> "none", row |-> upd_row]
    /\ upd_pc = "call"

\* get_note finds the note; the changes are computed and checked; the row is
\* updated and the tool operation returns success, or ValueError leaves it
UpdateOwnNote ==
    /\ upd_pc = "call"
    /\ LET changes == UpdateChanges(upd_args)
       IN upd_out' = IF UpdateRejected(changes, upd_row)
                     THEN [status |-> "raised", row |-> upd_row]
                     ELSE [status |-> "success", row |-> UpdateFields(upd_row, changes)]
    /\ upd_pc' = "done"
    /\ UNCHANGED <<upd_row, upd_args, chatVars, searchVars, noteVars, argVars, extVars>>

NextUpdate == UpdateOwnNote

SpecUpdate == InitUpdate /\ [][NextUpdate]_vars

(***************************************************************************)
(* _dispatch_tool: the arguments handed to each tool.  Two calls of the   *)
(* same tool are dispatched side by side on raw argument maps drawn from  *)
(* a small universe of keys, one of which no tool declares.               *)
(***************************************************************************)
MaxArgVal == 1

\* JSON values of a raw argument: null or a small scalar
ArgValues == {NoneArg} \cup (1..MaxArgVal)

RawKeys == {"id", "title", "junk"}

\* the dicts json.loads can hand to the dispatcher over RawKeys
RawMaps == UNION {[K -> ArgValues] : K \in SUBSET RawKeys}

DispatchNames == ToolNames \cup {"foo"}

\* the `allowed` key set of each branch of _dispatch_tool
Allowed(name) ==
    IF name = "search_notes"
    THEN {"query", "tags", "match_all_tags", "note_type", "is_archived", "limit",
          "alpha", "created_from", "created_to", "updated_from", "updated_to"}
    ELSE IF name = "create_note" THEN {"title", "content", "note_type"}
    ELSE IF name = "update_note"
    THEN {"id", "title", "content", "note_type", "is_archived"}
    ELSE IF name = "delete_note" THEN {"id"}
    ELSE {}

\* dict.get(k): the value of the key, None when the key is missing
DictGet(args, k) == IF k \in DOMAIN args THEN args[k] ELSE NoneArg

SafeArgs_PassThrough(name, args) == args

\* safe_args = {k: args.get(k) for k in allowed}
SafeArgs(name, args) == [k \in Allowed(name) |-> DictGet(args, k)]

NoCall == [tool |-> "none", kwargs |-> <<>>]

\* the collaborator call a dispatch makes: the tool method with **safe_args;
\* an unknown name calls nothing
DispatchCall(name, args) ==
    IF Branch(name) = "unknown" THEN NoCall
    ELSE [tool |-> name, kwargs |-> SafeArgs(name, args)]

\* what a tool method can answer to a call
ToolAnswers == {"success", "not_found"}

UnknownToolResult(name) == "Unknown tool: " \o name

InitArgs ==
    /\ InitChatIdle
    /\ InitSearchIdle
    /\ InitNotesIdle
    /\ InitUpdateIdle
    /\ InitExtIdle
    /\ disp_name \in DispatchNames
    /\ raw_a \in RawMaps
    /\ raw_b \in RawMaps
    /\ call_a = <<>>
    /\ call_b = <<>>
    /\ result_a = <<>>
    /\ result_b = <<>>
    /\ disp_pc = "call"

\* both calls are dispatched against the same store: the tool method answers
\* each call it receives, and the same call gets the same answer
DispatchPair ==
    /\ disp_pc = "call"
    /\ LET ca == DispatchCall(disp_name, raw_a)
           cb == DispatchCall(disp_name, raw_b)
       IN /\ call_a' = ca
          /\ call_b' = cb
          /\ IF Branch(disp_name) = "unknown"
             THEN /\ result_a' = UnknownToolResult(disp_name)
                  /\ result_b' = UnknownToolResult(disp_name)
             ELSE \E answer \in [{ca, cb} -> ToolAnswers] :
                     /\ result_a' = answer[ca]
                     /\ result_b' = answer[cb]
    /\ disp_pc' = "dispatched"
    /\ UNCHANGED <<disp_name, raw_a, raw_b, chatVars, searchVars, noteVars, updVars, extVars>>

NextArgs == DispatchPair

SpecArgs == InitArgs /\ [][NextArgs]_vars

(***************************************************************************)
(* The writers of one note's tags: the notes endpoint's update (PATCH),   *)
(* which replaces the tags and spawns an enrichment job, and the          *)
(* enrichment jobs, which read the tags, ask the enrichment service and   *)
(* write the merged tags with the admin client.                           *)
(***************************************************************************)
\* enrichment jobs and user updates followed for the note
MaxJobs == 2
MaxUserUpdates == 1

\* "return normalized[:5]"
MaxTags == 5

\* the first n elements of s
Take(s, n) == SubSeq(s, 1, Min(n, Len(s)))

\* Note.validate_tags, NoteCreate.validate_tags, NoteUpdate.validate_tags:
\* stripped, lowercased, without duplicates, at most five
ValidateTags(v) == Take(Dedup(v), MaxTags)

\* tag lists a user may send: one tag, five tags, six tags
UserTagLists == {<<"a">>, <<"a", "c", "d", "e", "f">>,
                 <<"a", "c", "d", "e", "f", "g">>}

\* the tags field of a PATCH payload: not set, or one of the lists
UserUpdates == {[set |-> FALSE, tags |-> <<>>]}
               \cup {[set |-> TRUE, tags |-> u] : u \in UserTagLists}

\* background_tasks.add_task(enrich_and_store_note_tags, ...)
NewJob == [pc |-> "spawned", seen |-> <<>>]

\* the note was created through the notes endpoint with validated tags, and the
\* enrichment job of the creation is spawned
InitEnrich ==
    /\ InitChatIdle
    /\ InitSearchIdle
    /\ InitNotesIdle
    /\ InitArgsIdle
    /\ InitUpdateIdle
    /\ InitCreateIdle
    /\ InitRateIdle
    /\ enr_tags \in {ValidateTags(u) : u \in UserTagLists}
    /\ enr_jobs = <<NewJob>>
    /\ enr_last = [by |-> "none"]
    /\ enr_updates = 0

\* PATCH /notes/{id}: NoteService.update_note writes the fields that are set,
\* the tags as validated by NoteUpdate; an enrichment job is added
UserUpdatesNote ==
    /\ enr_updates < MaxUserUpdates
    /\ Len(enr_jobs) < MaxJobs
    /\ \E u \in UserUpdates :
          IF u.set
          THEN /\ enr_tags' = ValidateTags(u.tags)
               /\ enr_last' = [by |-> "user", before |-> enr_tags,
                               after |-> ValidateTags(u.tags)]
          ELSE UNCHANGED <<enr_tags, enr_last>>
    /\ enr_jobs' = Append(enr_jobs, NewJob)
    /\ enr_updates' = enr_updates + 1
    /\ UNCHANGED <<chatVars, searchVars, noteVars, argVars, updVars, crtVars, rlVars>>

\* enrich_and_store_note_tags, _get_current_note: the job reads the stored tags
EnrichJobReads ==
    /\ \E j \in 1..Len(enr_jobs) :
          /\ enr_jobs[j].pc = "spawned"
          /\ enr_jobs' = [enr_jobs EXCEPT ![j] = [pc |-> "read", seen |-> enr_tags]]
    /\ UNCHANGED <<enr_tags, enr_last, enr_updates, chatVars, searchVars, noteVars,
                   argVars, updVars, crtVars, rlVars>>

\* enrich_and_store_note_tags after the service answered: the enriched tags are
\* merged with the tags read, and written unless they equal the tags read
EnrichJobWrites ==
    /\ \E j \in 1..Len(enr_jobs), new \in EnrichedTags :
          /\ enr_jobs[j].pc = "read"
          /\ enr_jobs' = [enr_jobs EXCEPT ![j].pc = "done"]
          /\ LET merged == MergeTags(new, enr_jobs[j].seen)
             IN IF merged = enr_jobs[j].seen
                THEN UNCHANGED <<enr_tags, enr_last>>
                ELSE /\ enr_tags' = merged
                     /\ enr_last' = [by |-> "job", before |-> enr_tags,
                                     after |-> merged]
    /\ UNCHANGED <<enr_updates, chatVars, searchVars, noteVars, argVars, updVars, crtVars, rlVars>>

\* the job ends without a write: no enrichment result, or an exception at one
\* of its awaits, which the handler logs
EnrichJobEndsEarly ==
    /\ \E j \in 1..Len(enr_jobs) :
          /\ enr_jobs[j].pc \in {"spawned", "read"}
          /\ enr_jobs' = [enr_jobs EXCEPT ![j].pc = "done"]
    /\ UNCHANGED <<enr_tags, enr_last, enr_updates, chatVars, searchVars, noteVars,
                   argVars, updVars, crtVars, rlVars>>

NextEnrich ==
    \/ UserUpdatesNote
    \/ EnrichJobReads
    \/ EnrichJobWrites
    \/ EnrichJobEndsEarly

SpecEnrich == InitEnrich /\ [][NextEnrich]_vars

(***************************************************************************)
(* One create_note call with its arguments kept: the registry's declared  *)
(* schema, the AgentNoteCreate DTO, NoteService.create_note and the Note  *)
(* model the service builds before the store is asked.                    *)
(***************************************************************************)
\* "title": {"type": "string", "maxLength": 500} of the registry
SchemaTitleMax == 500
\* AgentNoteCreate.title: Field(max_length=500)
DtoTitleMax == 500
\* Note.title: Field(max_length=255)
NoteTitleMax == 255
\* maxLength of content in the registry, AgentNoteCreate.content and Note.content
ContentMax == 10000

\* a text argument: null, or a string of len characters of which pad are
\* leading or trailing whitespace
NullText == [null |-> TRUE, len |-> 0, pad |-> 0]
Text(len, pad) == [null |-> FALSE, len |-> len, pad |-> pad]

\* len(text.strip())
StrippedLen(text) == text.len - text.pad

\* title arguments: null, blank, short, and lengths at and around the limits
\* of the note model and of the schema, unpadded and with one space
CreateTitles ==
    {NullText, Text(1, 1), Text(1, 0)}
    \cup {Text(n, pd) : n \in {NoteTitleMax, NoteTitleMax + 1, SchemaTitleMax,
                               SchemaTitleMax + 1},
                        pd \in {0, 1}}

\* content arguments: null, blank, short, at the limit and above it
CreateContents ==
    {NullText, Text(1, 1), Text(1, 0), Text(ContentMax, 0), Text(ContentMax + 1, 0)}

\* note_type arguments: null, a declared type, a type that is not declared
CreateTypes == {NoneStr, "task", "bogus"}

\* the enum of note_type in the registry, and the NoteType enum
DeclaredTypes == {"note", "task", "event", "recipe", "vocabulary"}

\* the arguments satisfy the create_note entry of _build_tools, with a title
\* that is not blank
SchemaValid(args) ==
    /\ ~args.title.null
    /\ args.title.len <= SchemaTitleMax
    /\ StrippedLen(args.title) > 0
    /\ (args.content.null \/ args.content.len <= ContentMax)
    /\ args.note_type \in DeclaredTypes

\* "NoteType(note_type) if note_type else NoteType.NOTE" raises ValueError
TypeRejected(note_type) == note_type # NoneStr /\ note_type \notin DeclaredTypes

\* Field(max_length=limit) of a str | None field
FieldTooLong(text, limit) == ~text.null /\ text.len > limit

\* the text after "(x or '').strip()" and "normalized if normalized else None"
Normalized(text) ==
    IF text.null \/ StrippedLen(text) = 0 THEN NullText
    ELSE Text(StrippedLen(text), 0)

\* AgentNoteCreate(...) raises: a field is too long, or ensure_title_or_content
\* finds title and content both blank
DtoRejected(args) ==
    \/ FieldTooLong(args.title, DtoTitleMax)
    \/ FieldTooLong(args.content, ContentMax)
    \/ (Normalized(args.title).null /\ Normalized(args.content).null)

\* Note(title=normalized_title, ...) in NoteService.create_note raises
NoteTitleTooLong(title) == FieldTooLong(title, NoteTitleMax)

\* Note(...) raises: a field is too long (both texts were normalized by the DTO)
NoteRejected(title, content) ==
    \/ NoteTitleTooLong(title)
    \/ FieldTooLong(content, ContentMax)

InitCreate ==
    /\ InitChatIdle
    /\ InitSearchIdle
    /\ InitNotesIdle
    /\ InitArgsIdle
    /\ InitUpdateIdle
    /\ InitEnrichIdle
    /\ InitRateIdle
    /\ crt_args \in [title : CreateTitles, content : CreateContents,
                     note_type : CreateTypes, db : RepoOutcomes]
    /\ crt_out = [status |-> "none"]
    /\ crt_pc = "call"

\* _tool_create_note: the note type is converted, the DTO is built,
\* NoteService.create_note builds the Note and hands it to the repository, and
\* the tool operation returns success; any exception leaves the operation
CreateOneNote ==
    /\ crt_pc = "call"
    /\ LET title == Normalized(crt_args.title)
           content == Normalized(crt_args.content)
       IN crt_out' =
             IF TypeRejected(crt_args.note_type) THEN [status |-> "raised", at |-> "note_type"]
             ELSE IF DtoRejected(crt_args) THEN [status |-> "raised", at |-> "dto"]
             ELSE IF NoteRejected(title, content) THEN [status |-> "raised", at |-> "note"]
             ELSE IF crt_args.db = "raise" THEN [status |-> "raised", at |-> "store"]
             ELSE [status |-> "success", title |-> title, content |-> content]
    /\ crt_pc' = "done"
    /\ UNCHANGED <<crt_args, chatVars, searchVars, noteVars, argVars, updVars, enrVars, rlVars>>

NextCreate == CreateOneNote

SpecCreate == InitCreate /\ [][NextCreate]_vars

(***************************************************************************)
(* The in-memory rate limiter of the signin and signup operations:        *)
(* rate_limit_by_ip and _is_rate_limited over the module-level dict       *)
(* _login_attempts. The functions are synchronous and called from the     *)
(* event loop, so one call is one step.                                   *)
(***************************************************************************)
\* settings.max_login_attempts and settings.login_attempt_window (seconds)
MaxLoginAttempts == 2
LoginAttemptWindow == 2

\* the clock readings and the number of requests followed
MaxTime == 5
MaxRequests == 6

\* f"{operation}:{client_ip}" of the requests
Identifiers == {"signin:ip1", "signup:ip1"}

RECURSIVE InWindow(_, _)
\* "[attempt for attempt in attempts if attempt > window_start]"
InWindow(attempts, window_start) ==
    IF attempts = <<>> THEN <<>>
    ELSE LET rest == InWindow(Tail(attempts), window_start)
         IN IF Head(attempts) > window_start THEN <<Head(attempts)>> \o rest ELSE rest

\* "if len(attempts) >= settings.max_login_attempts: return True"
Limited(attempts) == Len(attempts) >= MaxLoginAttempts

\* every attempt is appended, also one that is rejected
Recorded_Always(attempts, now) == Append(attempts, now)

\* the list after _is_rate_limited: "now" is appended only when the attempt is
\* not rejected
Recorded(attempts, now) ==
    IF Limited(attempts) THEN attempts ELSE Append(attempts, now)

\* min(attempts)
MinOf(attempts) == CHOOSE m \in SeqToSet(attempts) : \A x \in SeqToSet(attempts) : m <= x

\* "max(1, math.ceil(window_seconds - (now - earliest_attempt)))", with
\* earliest_attempt = min(attempts) if attempts else now
SecondsUntilReset(attempts, now) ==
    LET earliest == IF attempts # <<>> THEN MinOf(attempts) ELSE now
    IN Max(1, LoginAttemptWindow - (now - earliest))

InitRate ==
    /\ InitChatIdle
    /\ InitSearchIdle
    /\ InitNotesIdle
    /\ InitArgsIdle
    /\ InitUpdateIdle
    /\ InitEnrichIdle
    /\ InitCreateIdle
    /\ rl_enabled \in BOOLEAN
    /\ rl_now = 0
    /\ rl_attempts = [id \in Identifiers |-> <<>>]
    /\ rl_log = <<>>

\* time passes between requests
ClockAdvances ==
    /\ rl_now < MaxTime
    /\ rl_now' = rl_now + 1
    /\ UNCHANGED <<rl_enabled, rl_attempts, rl_log, chatVars, searchVars, noteVars,
                   argVars, updVars, enrVars, crtVars>>

\* rate_limit_by_ip(request, operation): _is_rate_limited drops the recorded
\* times that left the window and records the attempt unless the list is full;
\* a rejected request gets HTTP 429 with Retry-After. With rate limiting
\* disabled nothing is recorded and every request passes
RateLimitByIp ==
    /\ Len(rl_log) < MaxRequests
    /\ \E id \in Identifiers :
          LET kept == InWindow(rl_attempts[id], rl_now - LoginAttemptWindow)
          IN IF ~rl_enabled
             THEN /\ rl_log' = Append(rl_log, [id |-> id, at |-> rl_now,
                                               admitted |-> TRUE, retry_after |-> 0])
                  /\ UNCHANGED rl_attempts
             ELSE /\ rl_attempts' = [rl_attempts EXCEPT ![id] = Recorded(kept, rl_now)]
                  /\ rl_log' = Append(rl_log,
                         [id |-> id, at |-> rl_now, admitted |-> ~Limited(kept),
                          retry_after |-> IF Limited(kept)
                                          THEN SecondsUntilReset(kept, rl_now)
                                          ELSE 0])
    /\ UNCHANGED <<rl_enabled, rl_now, chatVars, searchVars, noteVars, argVars, updVars,
                   enrVars, crtVars>>

NextRate ==
    \/ ClockAdvances
    \/ RateLimitByIp

SpecRate == InitRate /\ [][NextRate]_vars

(***************************************************************************)
(* Properties of the event sequence.                                      *)
(***************************************************************************)
Terminal(e) == e.type \in {"final_done", "final", "error"}

\* positions of the events of the given types
Positions(types) == {i \in 1..Len(events) : events[i].type \in types}

Count(types) == Cardinality(Positions(types))

Last == events[Len(events)]

NoDuplicates(s) == Cardinality(SeqToSet(s)) = Len(s)

\* C1: when the generator has returned, the event sequence holds exactly one event of
\* type final_done, final or error, and that event is the last one.
C1_ExactlyOneTerminalLast ==
    pc = "done" =>
        /\ Count({"final_done", "final", "error"}) = 1
        /\ Len(events) > 0
        /\ Terminal(Last)

\* C2: every tool_call event is immediately followed by the tool_result event with
\* the same call_id and name (the call whose result is awaited is the last event),
\* every tool_result event immediately follows its tool_call, and wherever a request
\* to the model endpoint can be issued the pairs of all calls received are emitted.
C2_ToolPairsAdjacent ==
    /\ \A i \in Positions({"tool_call"}) :
          IF i < Len(events)
          THEN events[i + 1] = EvToolResult(events[i].name, events[i].call_id)
          ELSE pc = "dispatch"
    /\ \A i \in Positions({"tool_result"}) :
          /\ i > 1
          /\ events[i - 1].type = "tool_call"
          /\ events[i - 1].call_id = events[i].call_id
    /\ pc \in {"turn", "final_open", "fallback", "budget_open"} =>
          /\ Count({"tool_call"}) = n_calls
          /\ Count({"tool_result"}) = n_calls

\* a batch of two calls was emitted and a later request was issued
C2_Witness ==
    /\ pc = "done"
    /\ n_turn_req >= 2
    /\ \E i \in Positions({"tool_call"}) :
          /\ i + 2 \in Positions({"tool_call"})
          /\ events[i].name # events[i + 2].name

\* C3 as stated: turn requests, streamed requests and fallback requests together
\* never exceed 3.
C3_AtMostThreeRequests == Requests <= MaxTurns

\* C3 amended: at most 3 turn requests, at most one streamed request per iteration
\* and one after the loop, at most one fallback request: never more than 7 requests.
C3_RequestsBounded ==
    /\ n_turn_req <= MaxTurns
    /\ n_stream_req <= MaxTurns + 1
    /\ n_fallback_req <= 1
    /\ Requests <= 2 * MaxTurns + 1

C3_Witness == Requests = 2 * MaxTurns + 1

\* C4: at most 3 turn requests are issued; a turn request can only be issued while
\* fewer than 3 were, and after 3 iterations that returned tool calls the
\* finalization after the loop is entered.
C4_AtMostThreeTurnRequests ==
    /\ n_turn_req <= MaxTurns
    /\ pc = "turn" => n_turn_req < MaxTurns
    /\ (n_turn_req = MaxTurns /\ pc \notin {"tool_call", "dispatch"}) =>
          pc \in {"final_open", "stream", "fallback", "budget_open", "budget_stream", "done"}

\* three iterations returned tool calls and the finalization was forced
C4_Witness ==
    /\ n_turn_req = MaxTurns
    /\ n_calls >= MaxTurns
    /\ pc = "budget_open"

\* C5: the sources of every final_done or final event hold every note id returned by
\* a search_notes call of the invocation, each id once.
C5_SourcesCoverSearches ==
    \A i \in Positions({"final_done", "final"}) :
        /\ returned_ids \subseteq SeqToSet(events[i].sources)
        /\ NoDuplicates(events[i].sources)

\* two searches returned ids, one of them the same id twice, before the final event
C5_Witness ==
    /\ pc = "done"
    /\ returned_ids = {1, 2}
    /\ n_dispatch >= 2
    /\ Len(events) > 0
    /\ Last.type \in {"final_done", "final"}
    /\ Last.sources = <<1, 2>>

\* C6: when a turn request raised, the sequence holds exactly one error event, it is
\* the last event, nothing further runs, and on the first iteration the sequence is
\* exactly [error].
C6_TurnErrorIsOnlyError ==
    returned_at = "turn_error" =>
        /\ pc = "done"
        /\ Last.type = "error"
        /\ Count({"error"}) = 1
        /\ turn = 0 => events = <<EvError(ErrTurn)>>

\* what the fallback's final event settles: exactly one fallback request was made,
\* the generator has returned, the last event is the only final event, it carries the
\* fallback response's text (the apology when it has none), the sorted Source Id Set
\* and the continuation token, and there is no final_done event
FallbackFinalBody ==
    /\ stream_failed = "loop"
    /\ n_fallback_req = 1
    /\ pc = "done"
    /\ Count({"final"}) = 1
    /\ Count({"final_done"}) = 0
    /\ Last.type = "final"
    /\ fallback_resp.text # "" => Last.response = fallback_resp.text
    /\ fallback_resp.text = "" => Last.response = ErrTurn
    /\ Last.sources = Sorted(collected_source_ids)
    /\ Last.response_id = (IF fallback_resp.id # NoneId THEN fallback_resp.id
                           ELSE fallback_resp.kwargs.previous_response_id)

\* C7: when a stream of the loop's finalizer raised after k final_delta events and
\* the fallback request returned, exactly one fallback request was made and the
\* sequence ends with the only final event, carrying the fallback text, the sorted
\* Source Id Set and the continuation token, with no final_done event; for k = 1 and
\* no tool calls the sequence is [final_start, final_delta, final].
C7_FallbackFinal ==
    fallback_resp.outcome = "returned" =>
        /\ FallbackFinalBody
        /\ (n_calls = 0 /\ stream_deltas = 1) =>
              /\ Len(events) = 3
              /\ events[1] = EvFinalStart
              /\ events[2].type = "final_delta"
              /\ events[3].type = "final"

\* the part of C7 that does not describe the whole sequence
C7_FallbackFinalBodyHolds == fallback_resp.outcome = "returned" => FallbackFinalBody

\* C8: when a stream of the loop's finalizer raised and the fallback request raised
\* too, the sequence ends with its only error event and holds no final and no
\* final_done event.
C8_FallbackErrorIsOnlyError ==
    returned_at = "fallback_error" =>
        /\ Last.type = "error"
        /\ Count({"error"}) = 1
        /\ Count({"final", "final_done"}) = 0

\* C9: when the stream of the finalization entered after three iterations of tool
\* calls raised, one fallback request was made, and the sequence ends with final
\* carrying that response's text, or with error if the fallback request raised.
C9_BudgetFallsBack ==
    (pc = "done" /\ stream_failed = "budget" /\ n_calls >= MaxTurns) =>
        /\ n_fallback_req = 1
        /\ fallback_resp.outcome \in {"returned", "raised"}
        /\ fallback_resp.outcome = "raised" => Last.type = "error"
        /\ fallback_resp.outcome = "returned" =>
              /\ Last.type = "final"
              /\ Last.response = FallbackText(fallback_resp.text)

\* C10: the limit handed to the search collaborator is max(1, min(limit, 200)) for
\* every requested integer limit.
C10_LimitClamped ==
    (search_pc = "searched" /\ req_limit # NoneArg) =>
        eff_limit = Max(1, Min(req_limit, 200))

\* C11: for every requested alpha outside [0, 1] the search is run with alpha
\* clamped to the nearest bound of the range and the tool returns results.
C11_AlphaClamped ==
    (search_pc # "call" /\ req_alpha # NoneArg /\ ~AlphaFieldValid(req_alpha)) =>
        /\ search_pc = "searched"
        /\ eff_alpha = Max(AlphaMin, Min(req_alpha, AlphaMax))

\* the tool output items of the running batch whose collaborator raised
RaisedOutputs ==
    {i \in 1..Len(next_inputs) :
        /\ pending_tool_calls # <<>>
        /\ next_inputs[i].type = "function_call_output"
        /\ next_inputs[i].output = [error |-> "collaborator failed"]}

UnknownOutputs ==
    {i \in 1..Len(next_inputs) :
        /\ pending_tool_calls # <<>>
        /\ next_inputs[i].type = "function_call_output"
        /\ pending_tool_calls[i].name \notin ToolNames}

\* tool_result events of registered tools
RegisteredResults ==
    {j \in 1..Len(events) : events[j].type = "tool_result" /\ events[j].name \in ToolNames}

\* C13: a call naming an unregistered tool reaches no tool operation and raises
\* nothing; its output item is {error: "Unknown tool: <name>"}, its tool_call and
\* tool_result events are emitted as a pair, and after the batch the loop goes on
\* to the next model request.
C13_UnknownToolFedBack ==
    /\ n_domain_ops = Cardinality(RegisteredResults)
    /\ \A i \in UnknownOutputs :
          LET call == pending_tool_calls[i]
          IN /\ next_inputs[i] = ToolOutputItem(call.call_id,
                                     [error |-> "Unknown tool: " \o call.name])
             /\ \E j \in 1..(Len(events) - 1) :
                   /\ events[j] = EvToolCall(call.name, ParseArguments(call.arguments),
                                             call.call_id)
                   /\ events[j + 1] = EvToolResult(call.name, call.call_id)
    /\ (UnknownOutputs # {} /\ pc \notin {"tool_call", "dispatch"} /\ turn < MaxTurns) =>
          \/ pc = "turn"
          \/ returned_at = "turn_error"

\* an unregistered tool was called, among registered ones, and the next model
\* request is due with its error among the inputs
C13_Witness ==
    /\ UnknownOutputs # {}
    /\ n_domain_ops > 0
    /\ pc = "turn"
    /\ Len(next_inputs) = Len(pending_tool_calls)

\* the calls of the running batch whose tool_call event has been yielded
EmittedCalls ==
    IF pending_tool_calls = <<>> THEN {}
    ELSE 1..(CASE pc = "tool_call" -> call_idx - 1
               [] pc = "dispatch"  -> call_idx
               [] OTHER            -> Len(pending_tool_calls))

\* C14: a tool call whose arguments are not valid JSON does not abort the turn:
\* its tool_call event carries the empty argument map, the dispatcher receives
\* the empty map, its tool_result event is emitted, and the batch runs to its end.
C14_MalformedArgsBecomeEmpty ==
    /\ \A i \in EmittedCalls :
          LET call == pending_tool_calls[i]
          IN call.arguments = Malformed =>
               /\ \E j \in 1..Len(events) :
                     events[j] = EvToolCall(call.name, "{}", call.call_id)
               /\ (pc = "dispatch" /\ i = call_idx) => call_args = "{}"
               /\ i <= Len(next_inputs) =>
                     \E j \in 1..Len(events) :
                        events[j] = EvToolResult(call.name, call.call_id)
    /\ (pending_tool_calls # <<>> /\ pc \notin {"tool_call", "dispatch"}) =>
          Len(next_inputs) = Len(pending_tool_calls)

\* a call with malformed arguments has been dispatched, a later call of the same
\* batch too, and the next model request is due
C14_Witness ==
    /\ Len(pending_tool_calls) = MaxBatch
    /\ pending_tool_calls[1].arguments = Malformed
    /\ Len(next_inputs) = MaxBatch
    /\ pc = "turn"

\* C15: the first model request carries the caller's continuation token (or
\* none), every later request carries the id of the last model response
\* received, and a terminal final_done or final event carries the id of the last
\* model response received.
C15_TokenCarried ==
    /\ [][Requests' > Requests =>
             last_req_token' = (IF Requests = 0 THEN previous_response_id
                                ELSE last_resp_id)]_vars
    /\ [](\A i \in 1..Len(events) :
             events[i].type \in {"final_done", "final"} =>
                events[i].response_id = last_resp_id)

\* two turn requests and a streamed finalization were issued, and the final_done
\* event carries the id of the stream's response
C15_Witness ==
    /\ returned_at = "final_done"
    /\ n_turn_req >= 2
    /\ Last.response_id = Requests
    /\ last_req_token = Requests - 1

\* every model request succeeded and the one finalization stream delivered
\* text-delta events only, then its completion event
SuccessPath ==
    /\ returned_at \in {"final_done", "budget_final_done"}
    /\ n_stream_req = 1
    /\ stream_n = Len(stream_text)

NonEmpty(d) == d # ""

\* C16: on the success path the event sequence is k adjacent (tool_call,
\* tool_result) pairs, one final_start, one final_delta per non-empty text delta
\* in stream order, and one final_done whose sources are the ids returned by the
\* searches in ascending order.
C16_SuccessSequence ==
    SuccessPath =>
        LET k == n_calls
            texts == SelectSeq(stream_text, NonEmpty)
        IN /\ Len(events) = 2 * k + 1 + Len(texts) + 1
           /\ \A i \in 1..k :
                 /\ events[2 * i - 1].type = "tool_call"
                 /\ events[2 * i] =
                       EvToolResult(events[2 * i - 1].name, events[2 * i - 1].call_id)
           /\ events[2 * k + 1] = EvFinalStart
           /\ \A j \in 1..Len(texts) : events[2 * k + 1 + j] = EvFinalDelta(texts[j])
           /\ Last.type = "final_done"
           /\ SeqToSet(Last.sources) = returned_ids
           /\ \A x, y \in 1..Len(Last.sources) :
                 x < y => Last.sources[x] < Last.sources[y]

\* two tool calls, a search that returned notes, an empty delta and a token
C16_Witness ==
    /\ SuccessPath
    /\ n_calls >= 2
    /\ returned_ids = {1, 2}
    /\ Len(stream_text) = 2
    /\ stream_text[1] = ""
    /\ stream_text[2] # ""

\* C17: once the consumer has closed the event sequence, at whatever suspension
\* point, no model request is issued, no tool is dispatched, and no streaming
\* channel stays open.
C17_CloseStopsWork ==
    /\ [][closed_at # "none" =>
             /\ Requests' = Requests
             /\ n_dispatch' = n_dispatch
             /\ n_domain_ops' = n_domain_ops]_vars
    /\ [](closed_at # "none" => ~StreamOpen /\ pc = "closed")

\* the consumer closed while a stream was open and had delivered a token
C17_Witness ==
    /\ closed_at = "stream"
    /\ stream_deltas > 0
    /\ n_dispatch > 0

\* C19: the frames the endpoint sends are the events of chat_stream in order, and
\* the last frame has type final_done, final or error.
C19_LastFrameTerminal ==
    pc = "done" =>
        /\ Len(SentFrames) >= Len(events)
        /\ \A i \in 1..Len(events) : SentFrames[i].data = events[i]
        /\ SentFrames # <<>>
        /\ SentFrames[Len(SentFrames)].event \in {"final_done", "final", "error"}

C20_DeleteNeverRaises ==
    \A k \in 1..Len(op_log) :
       op_log[k].name = "delete_note" =>
          /\ op_log[k].outcome = "returned"
          /\ op_log[k].result.status \in {"success", "not_found"}


\* the two raw maps hold the same declared keys with the same values
AgreeOnDeclared(name, a, b) ==
    \A k \in Allowed(name) :
        /\ (k \in DOMAIN a) <=> (k \in DOMAIN b)
        /\ (k \in DOMAIN a) => a[k] = b[k]

\* C21: for a registered tool, two dispatches whose raw argument maps agree
\* on every declared key make the same collaborator call and return the same
\* result, whatever undeclared keys the maps hold.
C21_UndeclaredKeysIgnored ==
    (/\ disp_pc = "dispatched"
     /\ disp_name \in ToolNames
     /\ AgreeOnDeclared(disp_name, raw_a, raw_b))
        => (call_a = call_b /\ result_a = result_b)

\* two delete_note calls with the same id, one of which also carries an
\* undeclared key and a key only other tools declare
C21_Witness ==
    /\ disp_pc = "dispatched"
    /\ disp_name = "delete_note"
    /\ DOMAIN raw_a = {"id", "title", "junk"}
    /\ DOMAIN raw_b = {"id"}
    /\ raw_a["id"] = 1
    /\ raw_b["id"] = 1
    /\ call_a = call_b
    /\ result_a = "success"

\* C22: the Source Id Set never loses an element, and it changes only in the
\* dispatch of a search_notes call: the other tools, an unknown tool, the
\* model requests and the finalization leave it as it is.
C22_SourcesChangeOnlyInSearch ==
    [][/\ collected_source_ids \subseteq collected_source_ids'
       /\ collected_source_ids' # collected_source_ids
            => /\ pc = "dispatch"
               /\ pending_tool_calls[call_idx].name = "search_notes"]_vars

\* a search filled the set, calls of another tool and of an unknown tool
\* followed, and the invocation was finalized
C22_Witness ==
    /\ returned_at = "final_done"
    /\ collected_source_ids = {1, 2}
    /\ \E i, j, k \in 1..Len(events) :
          /\ i < j
          /\ j < k
          /\ events[i].type = "tool_result" /\ events[i].name = "search_notes"
          /\ events[j].type = "tool_result" /\ events[j].name = "update_note"
          /\ events[k].type = "tool_result" /\ events[k].name = "foo"

\* C23: when the embedding collaborator fails for the query of a search_notes
\* call (returns no vector or raises), the search collaborator is still invoked
\* with the same query and filters and an absent query embedding, and the tool
\* returns the results of that search.
C23_EmbeddingFailureStillSearches ==
    (/\ search_pc \in {"searched", "raised"}
     /\ embed_out \in {"none", "raise"})
        => /\ search_pc = "searched"
           /\ eff_query = req_query
           /\ eff_embedding = "absent"
           /\ eff_limit = LimitVal(req_limit)
           /\ eff_alpha = AlphaVal(req_alpha)
           /\ search_out.kind = "results"

\* C24: at most one final_start event is emitted; it precedes every
\* final_delta, final and final_done event; and once it has been emitted no
\* tool_call or tool_result event follows and no further turn request or tool
\* dispatch is made, also when the stream ends without a completion event.
C24_FinalStartOnceAndLast ==
    /\ [](/\ Count({"final_start"}) <= 1
          /\ \A i \in Positions({"final_delta", "final", "final_done"}) :
                \E j \in Positions({"final_start"}) : j < i
          /\ \A j \in Positions({"final_start"}) :
                \A i \in Positions({"tool_call", "tool_result"}) : i < j)
    /\ [][Count({"final_start"}) >= 1
            => /\ n_turn_req' = n_turn_req
               /\ n_dispatch' = n_dispatch]_vars

\* nothing has failed so far: no request or stream raised, no error event, no
\* collaborator raised, and no stream ended without completing
NoFailure ==
    /\ Count({"error"}) = 0
    /\ stream_failed = "none"
    /\ n_fallback_req = 0
    /\ Count({"final_start"}) <= 1
    /\ \A i \in 1..Len(next_inputs) :
          next_inputs[i].type = "function_call_output"
             => next_inputs[i].output # [error |-> "collaborator failed"]

\* C25: as long as nothing fails, no conversation input item (the user message
\* or a tool output) is part of more than one request's input.
C25_NoItemResent ==
    NoFailure =>
        \A i, j \in 1..Len(sent_log) :
            i < j => SeqToSet(sent_log[i]) \cap SeqToSet(sent_log[j]) = {}

\* C26: a field passed as null in an update_note call is left as it is in the
\* stored note; a call with null title and null content that sets is_archived
\* changes is_archived only and returns success.
C26_NullFieldsUnchanged ==
    upd_pc = "done" =>
        /\ \A f \in DOMAIN upd_args :
              upd_args[f] = NoneStr => upd_out.row[f] = upd_row[f]
        /\ (/\ upd_args.title = NoneStr
            /\ upd_args.content = NoneStr
            /\ upd_args.is_archived # NoneStr)
              => /\ upd_out.status = "success"
                 /\ upd_out.row = [upd_row EXCEPT !.is_archived = upd_args.is_archived]

\* C27: an update_note or delete_note call on a note of another user, on an id
\* no note has, or on a malformed id leaves the stored notes unchanged and
\* returns status not_found.
C27_ForeignNotesUntouched ==
    [][LET op == op_log'[Len(op_log')]
       IN (/\ Len(op_log') > Len(op_log)
           /\ op.name \in {"update_note", "delete_note"}
           /\ ~GetNote(op.id, Me))
             => /\ notes' = notes
                /\ op.outcome = "returned"
                /\ op.result.status = "not_found"]_vars

\* the loop has run MaxTurns iterations, every turn response held tool calls
\* and the last batch has been dispatched: no finalization was started before
\* the last tool call
ThirdBatchDone ==
    /\ turn = MaxTurns
    /\ n_turn_req = MaxTurns
    /\ pending_tool_calls # <<>>
    /\ Len(next_inputs) = Len(pending_tool_calls)
    /\ pc \notin {"tool_call", "dispatch"}
    /\ \A j \in Positions({"final_start"}) :
          \A i \in Positions({"tool_call"}) : i < j

\* C28: when all 3 turn-loop iterations return tool calls, final_start follows
\* the third batch's last tool_result, one streamed request is issued whose
\* input is exactly the third batch's tool outputs and whose continuation
\* token is the third response's id, and when that stream completes the
\* terminal event is final_done.
C28_BudgetFinalization ==
    ThirdBatchDone =>
        LET n == Len(pending_tool_calls)
            last_call == pending_tool_calls[n]
        IN /\ pc \in {"budget_open", "budget_stream", "done"}
           /\ Count({"final_start"}) = 1
           /\ \A j \in Positions({"final_start"}) :
                 events[j - 1] = EvToolResult(last_call.name, last_call.call_id)
           /\ n_fallback_req = 0
           /\ n_stream_req = (IF pc = "budget_open" THEN 0 ELSE 1)
           /\ pc # "budget_open" =>
                 /\ stream_kwargs.input = next_inputs
                 /\ \A i \in 1..n :
                       /\ next_inputs[i].type = "function_call_output"
                       /\ next_inputs[i].call_id = pending_tool_calls[i].call_id
                 /\ stream_kwargs.previous_response_id = MaxTurns
                 /\ last_req_token = MaxTurns
           /\ returned_at = "budget_final_done" =>
                 /\ Last.type = "final_done"
                 /\ Count({"final", "final_done"}) = 1

\* three batches of one call each, then the stream after the loop completed
C28_Witness ==
    /\ ThirdBatchDone
    /\ returned_at = "budget_final_done"
    /\ n_calls = MaxTurns
    /\ Count({"tool_result"}) = MaxTurns
    /\ Last.type = "final_done"

\* C29: the first model request submits exactly the user's message; each later
\* turn-loop request follows a tool-call batch and submits exactly that
\* batch's function_call_output items, one per call, in call order, with the
\* calls' call_ids.
C29_TurnRequestInputs ==
    [][n_turn_req' > n_turn_req =>
          LET sent == sent_log'[Len(sent_log')]
          IN IF n_turn_req = 0
             THEN /\ next_inputs = <<UserItem>>
                  /\ sent = <<UserKey>>
             ELSE /\ pending_tool_calls # <<>>
                  /\ Len(sent) = Len(pending_tool_calls)
                  /\ \A i \in 1..Len(sent) :
                        /\ next_inputs[i].type = "function_call_output"
                        /\ sent[i] = pending_tool_calls[i].call_id]_vars

\* events the open stream can still deliver, and calls of the running batch
\* not yet dispatched
StreamLeft == MaxStreamEvents - stream_n

CallsLeft == Len(pending_tool_calls) - call_idx

\* more than the steps one loop iteration can take
IterSpan == 2 * MaxBatch + MaxStreamEvents + 5

\* steps left within the running iteration, or after the loop
StepsLeftHere ==
    CASE pc = "turn"          -> IterSpan - 1
      [] pc = "tool_call"     -> 2 * CallsLeft + 2
      [] pc = "dispatch"      -> 2 * CallsLeft + 1
      [] pc = "final_open"    -> StreamLeft + 3
      [] pc = "stream"        -> StreamLeft + 2
      [] pc = "fallback"      -> 1
      [] pc = "budget_open"   -> StreamLeft + 2
      [] pc = "budget_stream" -> StreamLeft + 1
      [] OTHER                -> 0

\* an upper bound of the steps the invocation can still take
StepsLeft ==
    IF pc = "done" THEN 0 ELSE (MaxTurns - turn) * IterSpan + StepsLeftHere

\* C30: every chat_stream invocation terminates, whatever the model returns:
\* each step of the generator lowers a bound of the steps left that is never
\* negative and is zero exactly when the generator has returned; a generator
\* that has not returned can take a step; and it eventually returns.
C30_Terminates ==
    /\ [][StepsLeft' < StepsLeft]_vars
    /\ [](StepsLeft >= 0 /\ (StepsLeft = 0 <=> pc = "done"))
    /\ [](pc # "done" => ENABLED Next)
    /\ <>(pc = "done")

\* the model requested tool calls on every response, the stream after the
\* loop delivered events, and the generator returned
C30_Witness ==
    /\ pc = "done"
    /\ n_turn_req = MaxTurns
    /\ n_calls >= MaxTurns
    /\ Count({"tool_call"}) >= MaxTurns
    /\ stream_n = MaxStreamEvents
    /\ returned_at = "budget_final_done"

\* the tool operation that ended in this step
EndedOp == op_log'[Len(op_log')]

\* the operation wrote a note of the caller and answered success
OpSucceeded(op) ==
    /\ op.name \in {"create_note", "update_note"}
    /\ op.outcome = "returned"
    /\ op.result.status = "success"

\* C31: the embedding task and the tag-enrichment task are spawned only by a
\* create_note or update_note call that succeeded in the store, one of each, for
\* the id of the note written; a call that ends in not_found or raises spawns
\* none, and no other step spawns a task.
C31_TasksAfterSuccessOnly ==
    [][IF Len(op_log') > Len(op_log)
       THEN IF OpSucceeded(EndedOp)
            THEN /\ Len(tasks') = Len(tasks) + 2
                 /\ SubSeq(tasks', 1, Len(tasks)) = tasks
                 /\ tasks'[Len(tasks) + 1].kind = "embedding"
                 /\ tasks'[Len(tasks) + 2].kind = "enrichment"
                 /\ \A k \in 1..2 : /\ tasks'[Len(tasks) + k].note = EndedOp.result.id
                                    /\ tasks'[Len(tasks) + k].pc = "spawned"
                 /\ notes'[EndedOp.result.id].exists
                 /\ notes'[EndedOp.result.id].owner = Me
            ELSE tasks' = tasks
       ELSE Len(tasks') <= Len(tasks)]_vars

\* a create and an update of the created note both succeeded, and the pair of
\* tasks of each is still live
C31_Witness ==
    /\ Len(op_log) = 2
    /\ op_log[1].name = "create_note" /\ op_log[1].outcome = "returned"
    /\ op_log[2].name = "update_note" /\ op_log[2].outcome = "returned"
    /\ op_log[2].result.status = "success"
    /\ op_log[2].id = op_log[1].id
    /\ Len(tasks) = 4
    /\ \A i \in 1..4 : tasks[i].note = op_log[1].id

\* C32: the tag-enrichment job never removes a tag: after a write of the job the
\* stored tags hold every tag that was stored immediately before that write,
\* whatever ran between the job's read and its write.
C32_EnrichmentKeepsTags ==
    enr_last.by = "job" =>
        SeqToSet(enr_last.before) \subseteq SeqToSet(enr_last.after)

\* C33: the stored note has at most five tags after any sequence of user
\* updates and enrichment jobs.
C33_AtMostFiveTags == Len(enr_tags) <= MaxTags

\* C34: a create_note call whose arguments satisfy the registry's declared
\* schema (a title that is not blank, of at most 500 characters; content of at
\* most 10000 characters; a declared note_type) returns status success whenever
\* the note store succeeds.
C34_SchemaValidCreateSucceeds ==
    (crt_pc = "done" /\ SchemaValid(crt_args) /\ crt_args.db = "ok")
        => crt_out.status = "success"

\* the admitted attempts of an identifier among the first n calls whose time is
\* later than from and not later than to
AdmittedIn(id, n, from, to) ==
    {k \in 1..n : /\ rl_log[k].id = id
                  /\ rl_log[k].admitted
                  /\ rl_log[k].at > from
                  /\ rl_log[k].at <= to}

=============================================================================
